---------------------------- MODULE Spec2Model ----------------------------
(***************************************************************************)
(* Wallet authentication, session tokens, game sessions and the score      *)
(* commit of mission7-example-game, as a state machine.                    *)
(*                                                                         *)
(* Time is Date.now() in milliseconds (variable now).  Random identifiers  *)
(* (crypto.randomBytes nonces, game session ids) are drawn from a counter: *)
(* a value is never issued twice.  sha256 is modelled as an injective      *)
(* tuple constructor, an ECDSA signature as the record of who signed what. *)
(***************************************************************************)
EXTENDS Integers, Sequences, FiniteSets, TLC

VARIABLES
    now,            \* Date.now()
    nonceData,      \* every nonce object ever created: nonce -> [timestamp, used]
    activeNonces,   \* keys of the activeNonces Map (a deleted key's object lives on in nonceData)
    xreq,           \* token-exchange requests: slot -> position, arguments, response
    okCount,        \* history: nonce -> number of consume calls that returned true
    tokenCheck,     \* the last validateSessionToken call and what it returned
    activeSessions, \* the activeSessions Map: sessionId -> GameSession
    created,        \* number of game sessions created so far (ids are never reused)
    gains,          \* history: sessionId -> the times at which its score grew by POINTS_PER_KILL
    resp,           \* the last game-session call and what it returned
    dedupRecords,   \* the deduplicator's records: requestId -> [state, timestamp]
    writes,         \* history: the calls of walletClient.writeContract, in order
    creq,           \* score-commit requests: position in POST and what it answered
    privateKey,     \* whether process.env.WALLET_PRIVATE_KEY is set
    rateEntries,    \* the rate limiter's entries: clientKey -> [windowStart, count]
    rresp,          \* the last request to a game endpoint and what it was answered
    ownEntries,     \* history: the entries a limiter of its own would hold per endpoint
    authSession,    \* SecureGameAuth.session, the client's AuthSession or null
    authResult,     \* the last SecureGameAuth call and what it returned
    progress,       \* history: how far the client's calls have succeeded in order
    manager         \* a ScoreSubmissionManager, the timers it has armed, its last call

nonceVars == <<nonceData, activeNonces, xreq, okCount>>
gameVars == <<activeSessions, created, gains, resp>>
commitVars == <<dedupRecords, writes, creq, privateKey>>
routeVars == <<rateEntries, rresp, ownEntries>>
clientVars == <<authSession, authResult, progress>>
vars == <<now, nonceData, activeNonces, xreq, okCount, tokenCheck,
          activeSessions, created, gains, resp,
          dedupRecords, writes, creq, privateKey, rateEntries, rresp, ownEntries,
          authSession, authResult, progress, manager>>

-----------------------------------------------------------------------------
(* Bounds of the model *)

MaxNonces == 2
MaxXReq == 2
MaxNonceNow == 300002
MaxTokenNow == 690000
MaxSessions == 1
MaxActions == 3
MaxGameNow == 1800100
MaxBurst == 100
MaxShotActions == 4
MaxShotsNow == 1100
MaxCapActions == 4
MaxCapSpan == 500
MaxOverrun == 30
MaxCReq == 2
MaxCommitActions == 4
MaxCommitBurst == 100
MaxCommitNow == 300100
MaxAccountActions == 6
MaxAccountNow == 300
MaxRateCount == 7
MaxRouteActions == 2
MaxRouteNow == 60000

(* Program constants *)

NONCE_EXPIRY == 300000
TOKEN_BUCKET == 30000
TOKEN_TTL == 300000
DEFAULT_WINDOW == 300000

Addresses == {"0xA", "0xB"}

-----------------------------------------------------------------------------
(* Request headers and validateOrigin *)

GoodHeaders == [origin |-> "app", referer |-> "none", userAgent |-> "browser"]

Headers ==
    { GoodHeaders,
      [origin |-> "evil", referer |-> "none", userAgent |-> "browser"],
      [origin |-> "app", referer |-> "none", userAgent |-> "curl"] }

validateOrigin(h) ==
    /\ (h.origin = "app" \/ h.referer = "app/")
    /\ h.userAgent = "browser"

-----------------------------------------------------------------------------
(* Signatures.  A signature is what a wallet produced: signer signed the    *)
(* challenge message for (nonce, address); or bytes that are no signature.  *)

Message(nonce, address) == <<"Authenticate wallet for gaming session.", nonce, address>>

Sign(signer, nonce, address) ==
    [kind |-> "sig", signer |-> signer, message |-> Message(nonce, address)]

Malformed == [kind |-> "malformed", signer |-> "", message |-> <<>>]

\* viem verifyMessage: throws on malformed input, else compares the recovered
\* signer of the given message with the address.
verifyMessage(address, message, signature) ==
    IF signature.kind = "malformed" THEN "throw"
    ELSE IF signature.message = message /\ signature.signer = address THEN "true"
    ELSE "false"

-----------------------------------------------------------------------------
(* Session tokens *)

Bucket(t) == (t \div TOKEN_BUCKET) * TOKEN_BUCKET

generateSessionToken(playerAddress, timestamp) ==
    [kind |-> "sha256", address |-> playerAddress, timestamp |-> timestamp]

ForgedToken == [kind |-> "forged", address |-> "", timestamp |-> 0]

\* for (i = 0; i <= timestampWindow; i += 30000): one bucket too many.
WindowOffsetsInclusive(timestampWindow) ==
    { 30000 * k : k \in 0..(timestampWindow \div 30000) }

\* for (i = 0; i < timestampWindow; i += 30000)
WindowOffsets(timestampWindow) ==
    { 30000 * k : k \in 0..((timestampWindow - 1) \div 30000) }

\* expiresAt: timestamp + 300000, what the token exchange tells the client.
TokenExpiresAt(timestamp) == timestamp + TOKEN_TTL

validateSessionToken(token, playerAddress, timestampWindow, t) ==
    \E i \in WindowOffsets(timestampWindow) :
        token = generateSessionToken(playerAddress, Bucket(t - i))

-----------------------------------------------------------------------------
(* NonceStore: createNonce, verifySignatureAndNonce, the periodic sweep *)

NoNonce == 0
Nonces == 1..MaxNonces
XReqs == 1..MaxXReq

NoBody == [playerAddress |-> "", signature |-> Malformed, nonce |-> NoNonce]

IdleReq ==
    [pc |-> "idle", address |-> "", signature |-> Malformed, nonce |-> NoNonce,
     age |-> 0, unused |-> FALSE, sigValid |-> FALSE, seenOk |-> FALSE,
     consumed |-> "none", status |-> 0,
     sessionToken |-> ForgedToken, expiresAt |-> 0]

\* POST /api/get-nonce: createNonce() stores a fresh random value.
GetNonce(h, playerAddress) ==
    /\ validateOrigin(h)
    /\ playerAddress \in Addresses
    /\ Cardinality(DOMAIN nonceData) < MaxNonces
    /\ LET nonce == Cardinality(DOMAIN nonceData) + 1 IN
        /\ nonceData' = (nonce :> [timestamp |-> now, used |-> FALSE]) @@ nonceData
        /\ activeNonces' = activeNonces \cup {nonce}
        /\ okCount' = (nonce :> 0) @@ okCount
    /\ UNCHANGED <<now, xreq, tokenCheck, gameVars, commitVars, routeVars, clientVars, manager>>

ConsumeCheckNoExpiry(nonce, t) ==
    IF nonce \notin activeNonces \/ nonceData[nonce].used THEN "rejected" ELSE "await"

\* The synchronous part of verifySignatureAndNonce, up to `await verifyMessage`:
\* "rejected" (return false), "expired" (delete, return false) or "await".
ConsumeCheck(nonce, t) ==
    IF nonce \notin activeNonces \/ nonceData[nonce].used THEN "rejected"
    ELSE IF t - nonceData[nonce].timestamp > NONCE_EXPIRY THEN "expired"
    ELSE "await"

\* nonceData.used = true, on the object the call read before it awaited.
MarkUsedForgotten(data, nonce) == data

MarkUsed(data, nonce) == [data EXCEPT ![nonce].used = TRUE]

\* POST token exchange, first part: origin check, required fields, then
\* verifySignatureAndNonce until it awaits the signature verification.
\* body is NoBody when a required field is missing.  A request takes the first
\* slot that holds no request in flight.
ExchangeBegin(r, h, body) ==
    /\ xreq[r].pc # "verifying"
    /\ \A r2 \in XReqs : r2 < r => xreq[r2].pc = "verifying"
    /\ IF ~validateOrigin(h) THEN
            /\ xreq' = [xreq EXCEPT ![r] = [IdleReq EXCEPT !.pc = "done", !.status = 403]]
            /\ UNCHANGED activeNonces
       ELSE IF body = NoBody THEN
            /\ xreq' = [xreq EXCEPT ![r] = [IdleReq EXCEPT !.pc = "done", !.status = 400]]
            /\ UNCHANGED activeNonces
       ELSE
            LET nonce == body.nonce
                base == [IdleReq EXCEPT
                            !.nonce = nonce,
                            !.age = IF nonce \in DOMAIN nonceData
                                    THEN now - nonceData[nonce].timestamp ELSE 0,
                            !.unused = (nonce \in activeNonces /\ ~nonceData[nonce].used),
                            !.sigValid = (verifyMessage(body.playerAddress,
                                            Message(nonce, body.playerAddress),
                                            body.signature) = "true"),
                            !.seenOk = (nonce \in DOMAIN okCount /\ okCount[nonce] > 0)]
                check == ConsumeCheck(nonce, now)
            IN
            IF check = "await" THEN
                /\ xreq' = [xreq EXCEPT ![r] =
                        [base EXCEPT !.pc = "verifying", !.address = body.playerAddress,
                                     !.signature = body.signature]]
                /\ UNCHANGED activeNonces
            ELSE
                /\ xreq' = [xreq EXCEPT ![r] =
                        [base EXCEPT !.pc = "done", !.status = 401, !.consumed = "false"]]
                /\ activeNonces' = IF check = "expired" THEN activeNonces \ {nonce}
                                                        ELSE activeNonces
    /\ UNCHANGED <<now, nonceData, okCount, tokenCheck, gameVars, commitVars, routeVars, clientVars, manager>>

\* POST token exchange, second part: verifyMessage has settled; on a valid
\* signature the held nonce object is marked used and the token is derived.
ExchangeFinish(r) ==
    /\ xreq[r].pc = "verifying"
    /\ LET q == xreq[r]
           isValid == verifyMessage(q.address, Message(q.nonce, q.address), q.signature)
           timestamp == Bucket(now)
       IN
       IF isValid = "true" THEN
            /\ nonceData' = MarkUsed(nonceData, q.nonce)
            /\ okCount' = [okCount EXCEPT ![q.nonce] = @ + 1]
            /\ xreq' = [xreq EXCEPT ![r] =
                    [q EXCEPT !.pc = "done", !.status = 200, !.consumed = "true",
                              !.signature = Malformed,
                              !.sessionToken = generateSessionToken(q.address, timestamp),
                              !.expiresAt = TokenExpiresAt(timestamp)]]
       ELSE
            /\ xreq' = [xreq EXCEPT ![r] =
                    [q EXCEPT !.pc = "done", !.status = 401, !.consumed = "false",
                              !.address = "", !.signature = Malformed]]
            /\ UNCHANGED <<nonceData, okCount>>
    /\ UNCHANGED <<now, activeNonces, tokenCheck, gameVars, commitVars, routeVars, clientVars, manager>>

\* setInterval: delete every nonce older than NONCE_EXPIRY.
SweepNonces ==
    /\ \E n \in activeNonces : now - nonceData[n].timestamp > NONCE_EXPIRY
    /\ activeNonces' = { n \in activeNonces : ~(now - nonceData[n].timestamp > NONCE_EXPIRY) }
    /\ UNCHANGED <<now, nonceData, xreq, okCount, tokenCheck, gameVars, commitVars, routeVars, clientVars, manager>>

\* Steps of the clock: two of them make an age of exactly NONCE_EXPIRY, or 1 or 2 ms more.
NonceDeltas == {NONCE_EXPIRY \div 2, NONCE_EXPIRY \div 2 + 1}

TickNonce(d) ==
    /\ now + d <= MaxNonceNow
    /\ now' = now + d
    /\ UNCHANGED <<nonceData, activeNonces, xreq, okCount, tokenCheck, gameVars, commitVars, routeVars, clientVars, manager>>

\* A request for (nonce, address) presents the address's own signature of the
\* challenge, another wallet's signature of it, or bytes that are no signature.
\* MaxNonces + 1 stands for a value that was never issued.
Bodies ==
    UNION { { [playerAddress |-> a, signature |-> sig, nonce |-> n] :
                sig \in { Sign(s, n, a) : s \in Addresses } \cup {Malformed} } :
            a \in Addresses, n \in DOMAIN nonceData \cup {MaxNonces + 1} }

\* The body of a request refused at the origin check is never read.
ExchangeRequests ==
    { [h |-> h, body |-> NoBody] : h \in Headers }
        \cup { [h |-> GoodHeaders, body |-> b] : b \in Bodies }

\* accuracy is kept in hundredths of a percent point: 3333 is 33.33.
NoStats ==
    [score |-> 0, enemiesKilled |-> 0, shotsFired |-> 0, accuracy |-> 0,
     sessionDuration |-> 0]

NoResp ==
    [op |-> "none", sessionId |-> 0, playerAddress |-> "", type |-> "",
     valid |-> FALSE, error |-> "", score |-> 0, stats |-> NoStats]

NoCheck == [token |-> ForgedToken, address |-> "", window |-> 0, at |-> 0, result |-> FALSE]

\* The score-commit requests the model follows, and one not yet received.
CReqs == 1..MaxCReq

NoRequestId == [playerAddress |-> "", scoreAmount |-> 0, gameSessionId |-> 0]

IdleCommit == [pc |-> "idle", requestId |-> NoRequestId, claimed |-> 0, status |-> 0]

\* No request answered yet.  seq alternates with every request; validated
\* tells whether the request got as far as validateSessionToken.
NoRouteResp ==
    [seq |-> 0, route |-> "none", h |-> GoodHeaders, status |-> 0, validated |-> FALSE]

\* private session: AuthSession | null = null.  gameSessionId NoGame is undefined.
NoGame == 0

NullSession ==
    [isNull |-> TRUE, playerAddress |-> "", sessionToken |-> ForgedToken,
     gameSessionId |-> NoGame, expiresAt |-> 0]

\* No call made yet.  seq alternates with every call; serverCall names the last
\* endpoint the call reached, "none" when it returned without a request.
NoAuthResult ==
    [seq |-> 0, op |-> "none", success |-> FALSE, error |-> "", serverCall |-> "none",
     authenticated |-> FALSE, gameActive |-> FALSE]

\* No timer handle: submitTimeout = null.
NoTimer == 0

\* No call made yet.  by tells who called: the application or the timer.
NoManagerCall ==
    [seq |-> 0, op |-> "none", by |-> "none", submitted |-> FALSE, cancelled |-> FALSE]

\* new ScoreSubmissionManager(playerAddress).  armed holds the handles of the
\* timers that are set and have neither fired nor been cleared; issued counts
\* the handles handed out; quiet tells that nothing was added since the last
\* flush or destroy.  addedScore and addedTransactions total the arguments of
\* addScore and addTransaction, forwardedScore and forwardedTransactions the
\* scoreAmount and transactionAmount passed to submitPlayerScore.
NewManager ==
    [pendingScore |-> 0, pendingTransactions |-> 0, submitTimeout |-> NoTimer,
     armed |-> {}, issued |-> 0, quiet |-> TRUE, last |-> NoManagerCall,
     addedScore |-> 0, addedTransactions |-> 0,
     forwardedScore |-> 0, forwardedTransactions |-> 0]

ClientInit ==
    /\ authSession = NullSession
    /\ authResult = NoAuthResult
    /\ progress = "none"
    /\ manager = NewManager

Init ==
    /\ now = 0
    /\ nonceData = <<>>
    /\ activeNonces = {}
    /\ xreq = [r \in XReqs |-> IdleReq]
    /\ okCount = <<>>
    /\ tokenCheck = NoCheck
    /\ activeSessions = <<>>
    /\ created = 0
    /\ gains = <<>>
    /\ resp = NoResp
    /\ dedupRecords = <<>>
    /\ writes = <<>>
    /\ creq = [c \in CReqs |-> IdleCommit]
    /\ privateKey = TRUE
    /\ rateEntries = <<>>
    /\ rresp = NoRouteResp
    /\ ownEntries = <<>>
    /\ ClientInit

NextNonce ==
    \/ \E h \in Headers, a \in Addresses : GetNonce(h, a)
    \/ \E r \in XReqs, q \in ExchangeRequests : ExchangeBegin(r, q.h, q.body)
    \/ \E r \in XReqs : ExchangeFinish(r)
    \/ SweepNonces
    \/ \E d \in NonceDeltas : TickNonce(d)

SpecNonce == Init /\ [][NextNonce]_vars

-----------------------------------------------------------------------------
(* Claims about the nonce store *)

\* C1: a consume call that begins after a call on the same nonce has returned
\* true returns false, whatever it presents and whatever happened in between.
C1_ConsumedAtMostOnce ==
    \A r \in XReqs :
        xreq[r].seenOk => (xreq[r].pc = "done" /\ xreq[r].consumed = "false")

C1_Witness ==
    \E r \in XReqs :
        /\ xreq[r].seenOk /\ xreq[r].sigValid
        /\ xreq[r].pc = "done" /\ xreq[r].consumed = "false"

\* C2: of the token exchanges presenting one nonce, at most one returns true.
C2_AtMostOneExchangePerNonce ==
    \A n \in DOMAIN okCount : okCount[n] <= 1

\* C3 as stated: consume returns true only for a nonce of age < 5 minutes.
C3_TrueOnlyBelowTTL ==
    \A r \in XReqs : xreq[r].consumed = "true" => xreq[r].age < NONCE_EXPIRY

\* C3 as amended: consume returns true only for a nonce whose age at the call
\* is at most NONCE_EXPIRY, and returns false for every older nonce, even an
\* unused one presented with a valid signature.
C3_TrueOnlyWithinTTL ==
    \A r \in XReqs :
        /\ xreq[r].consumed = "true" => xreq[r].age <= NONCE_EXPIRY
        /\ xreq[r].age > NONCE_EXPIRY =>
                (xreq[r].pc = "done" /\ xreq[r].consumed = "false")

C3_Witness ==
    \E r \in XReqs :
        /\ xreq[r].age > NONCE_EXPIRY /\ xreq[r].unused /\ xreq[r].sigValid
        /\ xreq[r].pc = "done" /\ xreq[r].consumed = "false"

-----------------------------------------------------------------------------
(* SessionTokenCodec: validateSessionToken applied to the tokens that may   *)
(* exist at a given time: those derived for a bucket that has begun, for    *)
(* either address, and a value that no derivation produced.                 *)

TokenDeltas == {10000, TOKEN_BUCKET, DEFAULT_WINDOW}
TokenWindows == {DEFAULT_WINDOW, 60000, 45000}

TokenCandidates(t) ==
    { generateSessionToken(a, TOKEN_BUCKET * k) :
        a \in Addresses, k \in 0..(t \div TOKEN_BUCKET) } \cup {ForgedToken}

ValidateToken(token, playerAddress, timestampWindow) ==
    /\ tokenCheck' = [token |-> token, address |-> playerAddress,
                      window |-> timestampWindow, at |-> now,
                      result |-> validateSessionToken(token, playerAddress,
                                                      timestampWindow, now)]
    /\ UNCHANGED <<now, nonceVars, gameVars, commitVars, routeVars, clientVars, manager>>

\* The clock advances; the answer of the last call has been delivered.
TickToken(d) ==
    /\ now + d <= MaxTokenNow
    /\ now' = now + d
    /\ tokenCheck' = NoCheck
    /\ UNCHANGED <<nonceVars, gameVars, commitVars, routeVars, clientVars, manager>>

NextToken ==
    \/ \E token \in TokenCandidates(now), a \in Addresses, w \in TokenWindows :
            ValidateToken(token, a, w)
    \/ \E d \in TokenDeltas : TickToken(d)

SpecToken == Init /\ [][NextToken]_vars

\* C4: validateSessionToken accepts only a token derived for the given address
\* and a 30-second bucket of the trailing window: the bucket has begun and
\* reaches into [now - window, now]; for a window of whole buckets (the default)
\* it begins after now - window.  A token of the bucket 10 minutes back is
\* rejected under the default window, and so is a value no derivation produced.
C4_AcceptedOnlyInWindow ==
    LET c == tokenCheck IN
    /\ c.result =>
            /\ c.token = generateSessionToken(c.address, c.token.timestamp)
            /\ c.token.timestamp % TOKEN_BUCKET = 0
            /\ c.token.timestamp <= c.at
            /\ c.token.timestamp + TOKEN_BUCKET > c.at - c.window
            /\ (c.window % TOKEN_BUCKET = 0 => c.token.timestamp > c.at - c.window)
    /\ (c.window = DEFAULT_WINDOW /\ c.token.timestamp <= c.at - 600000) => ~c.result
    /\ c.token = ForgedToken => ~c.result

C4_Witness ==
    /\ tokenCheck.result
    /\ tokenCheck.window = DEFAULT_WINDOW
    /\ tokenCheck.token.timestamp = Bucket(tokenCheck.at) - 270000
    /\ tokenCheck.at % TOKEN_BUCKET # 0

-----------------------------------------------------------------------------
(* GameSessionStore: createGameSession, validateGameAction, endGameSession, *)
(* the periodic sweep                                                       *)

MAX_SHOTS_PER_SECOND == 10
MAX_KILLS_PER_SECOND == 5
MIN_TIME_BETWEEN_ACTIONS == 50
MAX_SESSION_DURATION == 1800000
POINTS_PER_KILL == 10
MAX_SCORE_PER_SESSION == 10000
RECENT_WINDOW == 1000

ActionTypes == {"shot_fired", "enemy_killed", "game_started", "game_ended"}

NewSession(playerAddress, t) ==
    [playerAddress |-> playerAddress, startTime |-> t, lastAction |-> t,
     actions |-> << [type |-> "game_started", timestamp |-> t] >>,
     score |-> 0, enemiesKilled |-> 0, shotsFired |-> 0, isActive |-> TRUE]

\* session.actions.filter(a => now - a.timestamp < 1000)
RecentActions(session, t) ==
    SelectSeq(session.actions, LAMBDA a : t - a.timestamp < RECENT_WINDOW)

\* recentActions.filter(a => a.type === type).length
CountType(actions, type) ==
    Len(SelectSeq(actions, LAMBDA a : a.type = type))

ShotLimitOffByOne(recentShots) == recentShots > MAX_SHOTS_PER_SECOND

ShotLimitReached(recentShots) == recentShots >= MAX_SHOTS_PER_SECOND

KillLimitReached(recentKills) == recentKills >= MAX_KILLS_PER_SECOND

OwnerMismatchIgnored(session, playerAddress) == FALSE

\* session.playerAddress !== playerAddress
OwnerMismatch(session, playerAddress) == session.playerAddress # playerAddress

TooFrequentIgnored(session, t) == FALSE

\* now - session.lastAction < MIN_TIME_BETWEEN_ACTIONS
TooFrequent(session, t) == t - session.lastAction < MIN_TIME_BETWEEN_ACTIONS

ExpiryIgnored(session, t) == FALSE

\* now - session.startTime > MAX_SESSION_DURATION
SessionExpired(session, t) == t - session.startTime > MAX_SESSION_DURATION

\* validateGameAction on a session found in the store at time t:
\* what it returns and the session as it leaves it.
validateGameAction(session, playerAddress, type, t) ==
    LET reject(e) == [valid |-> FALSE, error |-> e, session |-> session]
        accept(s2) ==
            [valid |-> TRUE, error |-> "",
             session |-> [s2 EXCEPT !.actions = Append(@, [type |-> type, timestamp |-> t]),
                                    !.lastAction = t]]
        recentActions == RecentActions(session, t)
    IN
    IF OwnerMismatch(session, playerAddress) THEN
        reject("Session belongs to different player")
    ELSE IF ~session.isActive THEN
        reject("Game session is not active")
    ELSE IF SessionExpired(session, t) THEN
        [valid |-> FALSE, error |-> "Game session expired",
         session |-> [session EXCEPT !.isActive = FALSE]]
    ELSE IF TooFrequent(session, t) THEN
        reject("Actions too frequent")
    ELSE IF type = "shot_fired" THEN
        IF ShotLimitReached(CountType(recentActions, "shot_fired")) THEN
            reject("Too many shots fired per second")
        ELSE accept([session EXCEPT !.shotsFired = @ + 1])
    ELSE IF type = "enemy_killed" THEN
        IF KillLimitReached(CountType(recentActions, "enemy_killed")) THEN
            reject("Too many kills per second")
        ELSE
            \* the counters are incremented before the score is checked
            LET counted == [session EXCEPT !.enemiesKilled = @ + 1,
                                           !.score = @ + POINTS_PER_KILL]
            IN  IF counted.score > MAX_SCORE_PER_SESSION THEN
                    [valid |-> FALSE, error |-> "Score too high for session duration",
                     session |-> counted]
                ELSE accept(counted)
    ELSE IF type = "game_ended" THEN
        accept([session EXCEPT !.isActive = FALSE])
    ELSE accept(session)

\* The times of the score increments of one call.
Gained(before, after, t) ==
    IF after.score > before.score THEN << t >> ELSE << >>

CreateGameSession(playerAddress) ==
    /\ created < MaxSessions
    /\ LET sessionId == created + 1 IN
        /\ activeSessions' = (sessionId :> NewSession(playerAddress, now)) @@ activeSessions
        /\ gains' = (sessionId :> << >>) @@ gains
        /\ created' = sessionId
        /\ resp' = [NoResp EXCEPT !.op = "create", !.sessionId = sessionId,
                                  !.playerAddress = playerAddress, !.valid = TRUE]
    /\ UNCHANGED <<now, nonceVars, tokenCheck, commitVars, routeVars, clientVars, manager>>

ValidateGameAction(sessionId, playerAddress, type, maxLen) ==
    /\ LET call == [NoResp EXCEPT !.op = "validate", !.sessionId = sessionId,
                                  !.playerAddress = playerAddress, !.type = type]
       IN
       IF sessionId \notin DOMAIN activeSessions THEN
            /\ resp' = [call EXCEPT !.error = "Invalid session ID"]
            /\ UNCHANGED <<activeSessions, gains>>
       ELSE
            LET session == activeSessions[sessionId]
                r == validateGameAction(session, playerAddress, type, now)
            IN
            /\ Len(session.actions) < maxLen
            /\ activeSessions' = [activeSessions EXCEPT ![sessionId] = r.session]
            /\ gains' = [gains EXCEPT ![sessionId] = @ \o Gained(session, r.session, now)]
            /\ resp' = [call EXCEPT !.valid = r.valid, !.error = r.error,
                                    !.score = IF r.valid THEN r.session.score ELSE 0]
    /\ UNCHANGED <<now, nonceVars, tokenCheck, created, commitVars, routeVars, clientVars, manager>>

EndedToggled(session, t) ==
    [session EXCEPT !.isActive = ~@,
                    !.actions = Append(@, [type |-> "game_ended", timestamp |-> t])]

\* endGameSession past its two checks: isActive = false, push game_ended.
EndedSession(session, t) ==
    [session EXCEPT !.isActive = FALSE,
                    !.actions = Append(@, [type |-> "game_ended", timestamp |-> t])]

EndGameSession(sessionId, playerAddress, maxLen) ==
    /\ LET call == [NoResp EXCEPT !.op = "end", !.sessionId = sessionId,
                                  !.playerAddress = playerAddress]
       IN
       IF sessionId \notin DOMAIN activeSessions THEN
            /\ resp' = [call EXCEPT !.error = "Invalid session ID"]
            /\ UNCHANGED activeSessions
       ELSE IF OwnerMismatch(activeSessions[sessionId], playerAddress) THEN
            /\ resp' = [call EXCEPT !.error = "Session belongs to different player"]
            /\ UNCHANGED activeSessions
       ELSE
            /\ Len(activeSessions[sessionId].actions) < maxLen
            /\ activeSessions' = [activeSessions EXCEPT ![sessionId] =
                                        EndedSession(@, now)]
            /\ resp' = [call EXCEPT !.valid = TRUE,
                                    !.score = activeSessions[sessionId].score]
    /\ UNCHANGED <<now, nonceVars, tokenCheck, created, gains, commitVars, routeVars, clientVars, manager>>

MathFloor(num, den) == num \div den

\* Math.round(num / den) for num >= 0, den > 0: halves go up.
MathRound(num, den) == (2 * num + den) \div (2 * den)

\* getSessionStats on a session found in the store at time t.
\* Math.round(accuracy * 100) / 100 is kept as Math.round(accuracy * 100).
getSessionStats(session, t) ==
    [score |-> session.score,
     enemiesKilled |-> session.enemiesKilled,
     shotsFired |-> session.shotsFired,
     accuracy |-> IF session.shotsFired > 0
                  THEN MathRound(session.enemiesKilled * 100 * 100, session.shotsFired)
                  ELSE 0,
     sessionDuration |-> t - session.startTime]

GetSessionStats(sessionId) ==
    /\ resp' = IF sessionId \in DOMAIN activeSessions
               THEN [NoResp EXCEPT !.op = "stats", !.sessionId = sessionId,
                                   !.valid = TRUE,
                                   !.stats = getSessionStats(activeSessions[sessionId], now)]
               ELSE [NoResp EXCEPT !.op = "stats", !.sessionId = sessionId]
    /\ UNCHANGED <<now, nonceVars, tokenCheck, activeSessions, created, gains, commitVars, routeVars, clientVars, manager>>

\* A sweep that finds no session idle for long enough.
IdleNever(session, t) == FALSE

\* if (now - session.lastAction > GAME_LIMITS.MAX_SESSION_DURATION)
IdleTooLong(session, t) == t - session.lastAction > MAX_SESSION_DURATION

\* setInterval: delete every session idle for more than MAX_SESSION_DURATION.
SweepSessions ==
    LET expired == { id \in DOMAIN activeSessions : IdleTooLong(activeSessions[id], now) }
        kept == DOMAIN activeSessions \ expired
    IN
    /\ expired # {}
    /\ activeSessions' = [id \in kept |-> activeSessions[id]]
    /\ gains' = [id \in kept |-> gains[id]]
    /\ resp' = [NoResp EXCEPT !.op = "sweep"]
    /\ UNCHANGED <<now, nonceVars, tokenCheck, created, commitVars, routeVars, clientVars, manager>>

\* The clock advances; the answer of the last call has been delivered.
TickGame(d, horizon) ==
    /\ now + d <= horizon
    /\ now' = now + d
    /\ resp' = NoResp
    /\ UNCHANGED <<nonceVars, tokenCheck, activeSessions, created, gains, commitVars, routeVars, clientVars, manager>>

\* An id the store may hold, or one it does not.
SessionIds == DOMAIN activeSessions \cup {created + 1}

GameDeltas == {25, MIN_TIME_BETWEEN_ACTIONS, MAX_SESSION_DURATION}

\* Steps shorter than MAX_SESSION_DURATION are taken only within MaxBurst ms
\* after a multiple of it, so that the clock takes few values.
Horizon(d) ==
    IF d < MAX_SESSION_DURATION
    THEN now - (now % MAX_SESSION_DURATION) + MaxBurst
    ELSE MaxGameNow

NextGame ==
    \/ \E a \in Addresses : CreateGameSession(a)
    \/ \E id \in SessionIds, a \in Addresses, type \in ActionTypes :
            ValidateGameAction(id, a, type, MaxActions)
    \/ \E id \in SessionIds, a \in Addresses : EndGameSession(id, a, MaxActions)
    \/ SweepSessions
    \/ \E d \in GameDeltas : TickGame(d, Horizon(d))

SpecGame == Init /\ [][NextGame]_vars

-----------------------------------------------------------------------------
(* A session in the middle of a game.  The store is started from the state  *)
(* that n calls of validateGameAction, one every step ms, leave a session   *)
(* created at time 0 in.                                                    *)

\* The session after n accepted actions of one type, one every step ms, on a
\* session created at time 0.
SessionAfter(playerAddress, type, step, n) ==
    [playerAddress |-> playerAddress, startTime |-> 0, lastAction |-> step * n,
     actions |-> << [type |-> "game_started", timestamp |-> 0] >>
                    \o [i \in 1..n |-> [type |-> type, timestamp |-> step * i]],
     score |-> IF type = "enemy_killed" THEN POINTS_PER_KILL * n ELSE 0,
     enemiesKilled |-> IF type = "enemy_killed" THEN n ELSE 0,
     shotsFired |-> IF type = "shot_fired" THEN n ELSE 0,
     isActive |-> TRUE]

\* createGameSession at time 0 followed by n calls of validateGameAction, each
\* of them accepted, leads through exactly these sessions.
Replay(playerAddress, type, step, n) ==
    /\ SessionAfter(playerAddress, type, step, 0) = NewSession(playerAddress, 0)
    /\ \A i \in 1..n :
            LET r == validateGameAction(SessionAfter(playerAddress, type, step, i - 1),
                                        playerAddress, type, step * i)
            IN  r.valid /\ r.session = SessionAfter(playerAddress, type, step, i)

InitAfter(playerAddress, type, step, n) ==
    /\ now = step * n
    /\ nonceData = <<>>
    /\ activeNonces = {}
    /\ xreq = [r \in XReqs |-> IdleReq]
    /\ okCount = <<>>
    /\ tokenCheck = NoCheck
    /\ Replay(playerAddress, type, step, n) = TRUE
    /\ activeSessions = (1 :> SessionAfter(playerAddress, type, step, n))
    /\ created = 1
    /\ gains = (1 :> [i \in 1..(IF type = "enemy_killed" THEN n ELSE 0) |-> step * i])
    /\ resp = NoResp
    /\ dedupRecords = <<>>
    /\ writes = <<>>
    /\ creq = [c \in CReqs |-> IdleCommit]
    /\ privateKey = TRUE
    /\ rateEntries = <<>>
    /\ rresp = NoRouteResp
    /\ ownEntries = <<>>
    /\ ClientInit

\* Nine shots, one every 50 ms.
InitShots == InitAfter("0xA", "shot_fired", MIN_TIME_BETWEEN_ACTIONS, 9)

ShotDeltas == {MIN_TIME_BETWEEN_ACTIONS, 500}

\* The owner goes on playing the session.
NextShots ==
    \/ \E type \in {"shot_fired", "enemy_killed"} :
            ValidateGameAction(1, "0xA", type, 10 + MaxShotActions)
    \/ EndGameSession(1, "0xA", 10 + MaxShotActions)
    \/ \E d \in ShotDeltas : TickGame(d, MaxShotsNow)

SpecShots == InitShots /\ [][NextShots]_vars

-----------------------------------------------------------------------------
(* A session near the score cap: 998 kills, one every 250 ms, score 9980 *)

KillStep == 250

KillsBefore == 998

InitCap == InitAfter("0xA", "enemy_killed", KillStep, KillsBefore)

CapDeltas == {MIN_TIME_BETWEEN_ACTIONS, KillStep}

NextCap ==
    \/ \E type \in {"shot_fired", "enemy_killed"} :
            /\ activeSessions[1].score < MAX_SCORE_PER_SESSION + MaxOverrun
            /\ ValidateGameAction(1, "0xA", type, KillsBefore + MaxCapActions)
    \/ EndGameSession(1, "0xA", KillsBefore + MaxCapActions)
    \/ \E d \in CapDeltas : TickGame(d, KillStep * KillsBefore + MaxCapSpan)

SpecCap == InitCap /\ [][NextCap]_vars

-----------------------------------------------------------------------------
(* A session from its creation: shots, kills, the end and the statistics *)

InitAccount == InitAfter("0xA", "shot_fired", MIN_TIME_BETWEEN_ACTIONS, 0)

NextAccount ==
    \/ \E type \in {"shot_fired", "enemy_killed"} :
            ValidateGameAction(1, "0xA", type, MaxAccountActions)
    \/ EndGameSession(1, "0xA", MaxAccountActions)
    \/ GetSessionStats(1)
    \/ TickGame(MIN_TIME_BETWEEN_ACTIONS, MaxAccountNow)

SpecAccount == InitAccount /\ [][NextAccount]_vars

-----------------------------------------------------------------------------
(* Score commit: POST /api/update-player-data and the request deduplicator  *)

\* The deduplicator's time to live.
DEDUP_TTL == 300000

\* generateRequestId: a deterministic hash of the triple, kept as the triple.
generateRequestId(playerAddress, scoreAmount, gameSessionId) ==
    [playerAddress |-> playerAddress, scoreAmount |-> scoreAmount,
     gameSessionId |-> gameSessionId]

\* A record is live until it is older than the time to live.
LiveRecord(records, requestId, t) ==
    /\ requestId \in DOMAIN records
    /\ t - records[requestId].timestamp <= DEDUP_TTL

\* isDuplicateRequest: a live record exists, Processing or Complete.
isDuplicateRequest(records, requestId, t) ==
    /\ LiveRecord(records, requestId, t)
    /\ records[requestId].state \in {"Processing", "Complete"}

markRequestProcessing(records, requestId, t) ==
    (requestId :> [state |-> "Processing", timestamp |-> t]) @@ records

markRequestComplete(records, requestId) ==
    IF requestId \in DOMAIN records
    THEN [records EXCEPT ![requestId].state = "Complete"]
    ELSE records

\* const scoreAmount = gameSession.score; the body's own number is not read.
ScoreFromBody(gameSession, body) == body.score

ScoreAmount(gameSession, body) == gameSession.score

TRANSACTION_AMOUNT == 1

DuplicateIgnored(requestId) == FALSE

\* if (isDuplicateRequest(requestId)) return 409
DuplicateDetected(requestId) == isDuplicateRequest(dedupRecords, requestId, now)

\* What walletClient.writeContract may come back with, and the answer of POST.
WriteOutcomes == {"hash", "insufficient funds", "execution reverted",
                  "AccessControlUnauthorizedAccount", "other"}

UpstreamStatus(outcome) ==
    CASE outcome = "hash" -> 200
      [] outcome = "insufficient funds" -> 400
      [] outcome = "execution reverted" -> 400
      [] outcome = "AccessControlUnauthorizedAccount" -> 403
      [] OTHER -> 500

\* POST from its start to the call of writeContract, or to an early answer.
\* limited is the verdict of the rate limiter for this client.
CommitBegin(c, h, limited, body) ==
    /\ creq[c].pc = "idle"
    /\ \A c2 \in CReqs : c2 < c => creq[c2].pc # "idle"
    /\ LET answer(code) == [creq EXCEPT ![c] = [IdleCommit EXCEPT !.pc = "done",
                                                               !.status = code]]
           early(code) == /\ creq' = answer(code)
                          /\ UNCHANGED <<dedupRecords, writes>>
       IN
       IF ~validateOrigin(h) THEN early(403)
       ELSE IF limited THEN early(429)
       ELSE IF ~validateSessionToken(body.sessionToken, body.playerAddress,
                                     DEFAULT_WINDOW, now) THEN early(401)
       ELSE IF body.gameSessionId = 0 THEN early(400)
       ELSE IF body.gameSessionId \notin DOMAIN activeSessions THEN early(400)
       ELSE
       LET gameSession == activeSessions[body.gameSessionId]
           scoreAmount == ScoreAmount(gameSession, body)
           requestId == generateRequestId(body.playerAddress, scoreAmount,
                                          body.gameSessionId)
       IN
       IF gameSession.playerAddress # body.playerAddress THEN early(403)
       ELSE IF gameSession.isActive THEN early(400)
       ELSE IF DuplicateDetected(requestId) THEN
            /\ creq' = [creq EXCEPT ![c] = [IdleCommit EXCEPT !.pc = "done",
                                                !.requestId = requestId,
                                                !.status = 409]]
            /\ UNCHANGED <<dedupRecords, writes>>
       ELSE
            /\ dedupRecords' = markRequestProcessing(dedupRecords, requestId, now)
            /\ IF ~privateKey THEN
                    /\ creq' = [creq EXCEPT ![c] = [IdleCommit EXCEPT !.pc = "done",
                                                        !.requestId = requestId,
                                                        !.status = 500]]
                    /\ UNCHANGED writes
               ELSE
                    /\ writes' = Append(writes,
                            [playerAddress |-> body.playerAddress,
                             scoreAmount |-> scoreAmount,
                             transactionAmount |-> TRANSACTION_AMOUNT,
                             requestId |-> requestId, time |-> now])
                    /\ creq' = [creq EXCEPT ![c] = [pc |-> "writing",
                                                    requestId |-> requestId,
                                                    claimed |-> body.score,
                                                    status |-> 0]]
    /\ UNCHANGED <<now, nonceVars, tokenCheck, gameVars, privateKey, clientVars, manager>>

\* writeContract settles: markRequestComplete and 200, or the catch block.
CommitFinish(c, outcome) ==
    /\ creq[c].pc = "writing"
    /\ dedupRecords' = IF outcome = "hash"
                       THEN markRequestComplete(dedupRecords, creq[c].requestId)
                       ELSE dedupRecords
    /\ creq' = [creq EXCEPT ![c].pc = "done", ![c].status = UpstreamStatus(outcome)]
    /\ UNCHANGED <<now, nonceVars, tokenCheck, gameVars, writes, privateKey, routeVars, clientVars, manager>>

\* The deduplicator's eviction of the records past their time to live.
SweepRequests ==
    LET kept == { id \in DOMAIN dedupRecords : LiveRecord(dedupRecords, id, now) }
    IN
    /\ kept # DOMAIN dedupRecords
    /\ dedupRecords' = [id \in kept |-> dedupRecords[id]]
    /\ UNCHANGED <<now, nonceVars, tokenCheck, gameVars, writes, creq, privateKey,
                   routeVars, clientVars, manager>>

CommitDeltas == {MIN_TIME_BETWEEN_ACTIONS, DEDUP_TTL}

\* Short steps right after a whole number of DEDUP_TTL only.
CommitHorizon(d) ==
    IF d >= DEDUP_TTL THEN MaxCommitNow
    ELSE (now \div DEDUP_TTL) * DEDUP_TTL + MaxCommitBurst

\* The tokens a client of the commit endpoint may hold: of the first bucket,
\* of the bucket of now, or forged.
CommitTokens ==
    { generateSessionToken(a, b) : a \in Addresses, b \in {0, Bucket(now)} }
        \cup {ForgedToken}

CommitBodies ==
    [playerAddress : Addresses, gameSessionId : {0} \cup SessionIds,
     sessionToken : CommitTokens, score : {0, 99990}]

\* Any body from the site and within the rate limit; one body from elsewhere
\* or beyond the limit.
CommitRequests ==
    [h : {GoodHeaders}, limited : {FALSE}, body : CommitBodies]
        \cup [h : Headers, limited : BOOLEAN,
              body : {[playerAddress |-> "0xA", gameSessionId |-> 1,
                       sessionToken |-> generateSessionToken("0xA", Bucket(now)),
                       score |-> 0]}]

InitCommit ==
    /\ now = 0
    /\ nonceData = <<>>
    /\ activeNonces = {}
    /\ xreq = [r \in XReqs |-> IdleReq]
    /\ okCount = <<>>
    /\ tokenCheck = NoCheck
    /\ activeSessions = <<>>
    /\ created = 0
    /\ gains = <<>>
    /\ resp = NoResp
    /\ dedupRecords = <<>>
    /\ writes = <<>>
    /\ creq = [c \in CReqs |-> IdleCommit]
    /\ privateKey \in BOOLEAN
    /\ rateEntries = <<>>
    /\ rresp = NoRouteResp
    /\ ownEntries = <<>>
    /\ ClientInit

NextCommit ==
    \/ \E a \in Addresses : CreateGameSession(a)
    \/ \E id \in DOMAIN activeSessions :
            ValidateGameAction(id, activeSessions[id].playerAddress,
                               "enemy_killed", MaxCommitActions)
    \/ \E id \in DOMAIN activeSessions :
            EndGameSession(id, activeSessions[id].playerAddress, MaxCommitActions)
    \/ \E c \in CReqs, q \in CommitRequests :
            CommitBegin(c, q.h, q.limited, q.body) /\ UNCHANGED routeVars
    \/ \E c \in CReqs, outcome \in WriteOutcomes : CommitFinish(c, outcome)
    \/ SweepRequests
    \/ \E d \in CommitDeltas : TickGame(d, CommitHorizon(d))

SpecCommit == InitCommit /\ [][NextCommit]_vars

-----------------------------------------------------------------------------
(* The game endpoints: session start, action submit, session end and score  *)
(* commit, each behind the origin check, the rate limiter and the token     *)

RATE_WINDOW == 60000
START_MAX == 5
ACTION_MAX == 100
END_MAX == 10
COMMIT_MAX == 10

\* request.headers.get('x-forwarded-for') || ... || 'unknown'
ClientIp == "unknown"

\* rateLimit(clientKey, {maxRequests, windowMs}) at time t: a fixed-window
\* counter per key, incremented by every check, restarted once the window
\* has elapsed; not allowed once the count exceeds maxRequests.
rateLimit(entries, clientKey, maxRequests, t) ==
    LET live == /\ clientKey \in DOMAIN entries
                /\ t - entries[clientKey].windowStart < RATE_WINDOW
        entry == IF live
                 THEN [entries[clientKey] EXCEPT !.count = @ + 1]
                 ELSE [windowStart |-> t, count |-> 1]
    IN  [allowed |-> entry.count <= maxRequests,
         resetTime |-> entry.windowStart + RATE_WINDOW,
         entries |-> (clientKey :> entry) @@ entries]

RateCount(clientKey) ==
    IF clientKey \in DOMAIN rateEntries THEN rateEntries[clientKey].count ELSE 0

\* The token is validated first, the rate limiter consulted only then.
GateTokenFirst(h, maxRequests, body) ==
    LET tokenOk == validateSessionToken(body.sessionToken, body.playerAddress,
                                        DEFAULT_WINDOW, now)
        rl == rateLimit(rateEntries, ClientIp, maxRequests, now)
    IN  IF ~validateOrigin(h)
        THEN [status |-> 403, entries |-> rateEntries, validated |-> FALSE]
        ELSE IF ~tokenOk
        THEN [status |-> 401, entries |-> rateEntries, validated |-> TRUE]
        ELSE [status |-> IF rl.allowed THEN 0 ELSE 429, entries |-> rl.entries,
              validated |-> TRUE]

\* The opening of every game endpoint: validateOrigin, then rateLimit, then
\* validateSessionToken.  status 0: the request goes on to the store.
Gate(h, maxRequests, body) ==
    IF ~validateOrigin(h)
    THEN [status |-> 403, entries |-> rateEntries, validated |-> FALSE]
    ELSE LET rl == rateLimit(rateEntries, ClientIp, maxRequests, now) IN
         IF ~rl.allowed
         THEN [status |-> 429, entries |-> rl.entries, validated |-> FALSE]
         ELSE [status |-> IF validateSessionToken(body.sessionToken,
                                  body.playerAddress, DEFAULT_WINDOW, now)
                          THEN 0 ELSE 401,
               entries |-> rl.entries, validated |-> TRUE]

Answer(route, h, gate, status) ==
    [seq |-> 1 - rresp.seq, route |-> route, h |-> h, status |-> status,
     validated |-> gate.validated]

\* POST /api/game-session/start
StartRoute(h, body) ==
    LET gate == Gate(h, START_MAX, body) IN
    /\ RateCount(ClientIp) < MaxRateCount
    /\ rateEntries' = gate.entries
    /\ IF gate.status # 0 THEN
            /\ rresp' = Answer("start", h, gate, gate.status)
            /\ UNCHANGED <<activeSessions, created, gains>>
       ELSE
            /\ created < MaxSessions
            /\ activeSessions' = (created + 1 :> NewSession(body.playerAddress, now))
                                    @@ activeSessions
            /\ gains' = (created + 1 :> << >>) @@ gains
            /\ created' = created + 1
            /\ rresp' = Answer("start", h, gate, 200)
    /\ UNCHANGED <<now, nonceVars, tokenCheck, resp, commitVars, clientVars, manager>>

\* POST /api/game-session/action
ActionRoute(h, body, type) ==
    LET gate == Gate(h, ACTION_MAX, body)
        known == body.gameSessionId \in DOMAIN activeSessions
    IN
    /\ RateCount(ClientIp) < MaxRateCount
    /\ rateEntries' = gate.entries
    /\ IF gate.status # 0 THEN
            /\ rresp' = Answer("action", h, gate, gate.status)
            /\ UNCHANGED <<activeSessions, gains>>
       ELSE IF body.gameSessionId = 0 \/ ~known THEN
            /\ rresp' = Answer("action", h, gate, 400)
            /\ UNCHANGED <<activeSessions, gains>>
       ELSE
            LET session == activeSessions[body.gameSessionId]
                validation == validateGameAction(session, body.playerAddress, type, now)
            IN
            /\ Len(session.actions) < MaxRouteActions
            /\ activeSessions' = [activeSessions EXCEPT
                                    ![body.gameSessionId] = validation.session]
            /\ gains' = [gains EXCEPT ![body.gameSessionId] =
                            @ \o Gained(session, validation.session, now)]
            /\ rresp' = Answer("action", h, gate,
                               IF validation.valid THEN 200 ELSE 400)
    /\ UNCHANGED <<now, nonceVars, tokenCheck, created, resp, commitVars, clientVars, manager>>

\* POST /api/game-session/end
EndRoute(h, body) ==
    LET gate == Gate(h, END_MAX, body)
        known == body.gameSessionId \in DOMAIN activeSessions
    IN
    /\ RateCount(ClientIp) < MaxRateCount
    /\ rateEntries' = gate.entries
    /\ IF gate.status # 0 THEN
            /\ rresp' = Answer("end", h, gate, gate.status)
            /\ UNCHANGED activeSessions
       ELSE IF body.gameSessionId = 0 \/ ~known THEN
            /\ rresp' = Answer("end", h, gate, 400)
            /\ UNCHANGED activeSessions
       ELSE IF OwnerMismatch(activeSessions[body.gameSessionId], body.playerAddress) THEN
            /\ rresp' = Answer("end", h, gate, 400)
            /\ UNCHANGED activeSessions
       ELSE
            /\ Len(activeSessions[body.gameSessionId].actions) < MaxRouteActions
            /\ activeSessions' = [activeSessions EXCEPT
                                    ![body.gameSessionId] = EndedSession(@, now)]
            /\ rresp' = Answer("end", h, gate, 200)
    /\ UNCHANGED <<now, nonceVars, tokenCheck, created, gains, resp, commitVars, clientVars, manager>>

\* POST /api/update-player-data behind the same opening.
CommitRoute(c, h, body) ==
    LET gate == Gate(h, COMMIT_MAX, body) IN
    /\ RateCount(ClientIp) < MaxRateCount
    /\ CommitBegin(c, h, gate.status = 429, body)
    /\ rateEntries' = gate.entries
    /\ rresp' = Answer("commit", h, gate,
                       IF creq'[c].pc = "writing" THEN 0 ELSE creq'[c].status)

\* The rate limiter's eviction of the entries whose window has elapsed.
SweepRates ==
    LET kept == { k \in DOMAIN rateEntries :
                    now - rateEntries[k].windowStart < RATE_WINDOW }
    IN
    /\ kept # DOMAIN rateEntries
    /\ rateEntries' = [k \in kept |-> rateEntries[k]]
    /\ UNCHANGED <<now, nonceVars, tokenCheck, gameVars, commitVars, rresp, ownEntries,
                   clientVars, manager>>

TickRoutes(d, horizon) ==
    /\ now + d <= horizon
    /\ now' = now + d
    /\ UNCHANGED <<nonceVars, tokenCheck, gameVars, commitVars, routeVars, clientVars, manager>>

\* Any body from the site; from elsewhere, a body with a good token and one
\* with a forged token.
RouteRequests ==
    [h : {GoodHeaders}, body : { b \in CommitBodies : b.score = 0 }]
        \cup [h : Headers,
              body : { [playerAddress |-> "0xA", gameSessionId |-> 1,
                        sessionToken |-> k, score |-> 0] :
                       k \in {generateSessionToken("0xA", Bucket(now)), ForgedToken} }]

NextRoutes ==
    \/ \E q \in RouteRequests : StartRoute(q.h, q.body) /\ UNCHANGED ownEntries
    \/ \E q \in RouteRequests :
            ActionRoute(q.h, q.body, "enemy_killed") /\ UNCHANGED ownEntries
    \/ \E q \in RouteRequests : EndRoute(q.h, q.body) /\ UNCHANGED ownEntries
    \/ \E q \in RouteRequests : CommitRoute(1, q.h, q.body) /\ UNCHANGED ownEntries
    \/ CommitFinish(1, "hash")
    \/ SweepRates
    \/ TickRoutes(RATE_WINDOW, MaxRouteNow)

SpecRoutes == Init /\ [][NextRoutes]_vars

-----------------------------------------------------------------------------
(* Claims about the score commit *)

\* The step invokes the external write.
WriteInvoked == Len(writes') = Len(writes) + 1

C5_Step ==
    /\ \A c \in CReqs :
        ( /\ creq[c].pc = "idle" /\ creq'[c].pc # "idle"
          /\ creq'[c].requestId # NoRequestId
          /\ LiveRecord(dedupRecords, creq'[c].requestId, now)
          /\ dedupRecords[creq'[c].requestId].state \in {"Processing", "Complete"} )
        => /\ creq'[c].pc = "done" /\ creq'[c].status = 409
           /\ writes' = writes
           /\ dedupRecords' = dedupRecords
    /\ writes' # writes =>
        /\ WriteInvoked
        /\ SubSeq(writes', 1, Len(writes)) = writes
        /\ ~LiveRecord(dedupRecords, writes'[Len(writes')].requestId, now)
        /\ LiveRecord(dedupRecords', writes'[Len(writes')].requestId, now)

\* Two invocations of the write with one fingerprint are more than the time
\* to live apart.
C5_OncePerTTL ==
    \A i, j \in 1..Len(writes) :
        (i < j /\ writes[i].requestId = writes[j].requestId)
            => writes[j].time - writes[i].time > DEDUP_TTL

\* C5: while a live record of a fingerprint exists, Processing or Complete, a
\* commit request with the same (playerAddress, score, sessionId) is answered
\* 409 DuplicateRequest and invokes no write; the write is invoked at most
\* once per fingerprint within the time to live, whatever the interleaving.
C5_AtMostOncePayout == [][C5_Step]_vars /\ []C5_OncePerTTL

\* A second request was answered 409 while the write of the first, with the
\* same fingerprint, was still in flight.
C5_Witness ==
    \E c, c2 \in CReqs :
        /\ creq[c].pc = "writing"
        /\ creq[c2].pc = "done" /\ creq[c2].status = 409
        /\ creq[c2].requestId = creq[c].requestId
        /\ dedupRecords[creq[c].requestId].state = "Processing"
        /\ Len(writes) = 1

C6_Step ==
    WriteInvoked =>
        LET w == writes'[Len(writes')]
            id == w.requestId.gameSessionId
        IN  /\ id \in DOMAIN activeSessions
            /\ activeSessions[id].playerAddress = w.playerAddress
            /\ ~activeSessions[id].isActive
            /\ w.scoreAmount = activeSessions[id].score
            /\ w.transactionAmount = 1

-----------------------------------------------------------------------------
(* Claims about the rate caps of a game session *)

\* The timestamps of the entries of one type, in the order of the log.
TimesOf(actions, type) ==
    LET sel == SelectSeq(actions, LAMBDA a : a.type = type)
    IN  [i \in 1..Len(sel) |-> sel[i].timestamp]

\* No span of 1000 ms holds more than cap entries: entry i + cap comes at
\* least 1000 ms after entry i.
AtMostPerSecond(times, cap) ==
    \A i \in 1..Len(times) :
        i + cap <= Len(times) => times[i + cap] - times[i] >= RECENT_WINDOW

\* The number of accepted entries of a type less than 1000 ms old at time t.
TrailingCount(session, type, t) ==
    Cardinality({ i \in 1..Len(session.actions) :
                    /\ session.actions[i].type = type
                    /\ session.actions[i].timestamp > t - RECENT_WINDOW })

\* The step is a validateGameAction call of this type by the owner on an
\* Active, unexpired session, at least 50 ms after its last action.
PassesThrottle(id, type) ==
    /\ resp'.op = "validate" /\ resp'.sessionId = id /\ resp'.type = type
    /\ now' = now
    /\ id \in DOMAIN activeSessions
    /\ resp'.playerAddress = activeSessions[id].playerAddress
    /\ activeSessions[id].isActive
    /\ now - activeSessions[id].startTime <= MAX_SESSION_DURATION
    /\ now - activeSessions[id].lastAction >= MIN_TIME_BETWEEN_ACTIONS

C9_ShotStep ==
    \A id \in DOMAIN activeSessions :
        PassesThrottle(id, "shot_fired") =>
            LET s == activeSessions[id] IN
            IF TrailingCount(s, "shot_fired", now) < MAX_SHOTS_PER_SECOND
            THEN /\ resp'.valid
                 /\ activeSessions'[id].shotsFired = s.shotsFired + 1
                 /\ activeSessions'[id].actions =
                        Append(s.actions, [type |-> "shot_fired", timestamp |-> now])
            ELSE /\ ~resp'.valid
                 /\ resp'.error = "Too many shots fired per second"
                 /\ activeSessions'[id] = s

C9_ShotSpans ==
    \A id \in DOMAIN activeSessions :
        AtMostPerSecond(TimesOf(activeSessions[id].actions, "shot_fired"),
                        MAX_SHOTS_PER_SECOND)

\* C9: a shot_fired that passes the throttle of an Active session is accepted
\* when fewer than 10 shots were accepted in the trailing second and rejected
\* with 'Too many shots fired per second' when 10 were; no span of one second
\* holds more than 10 accepted shots.
C9_ShotRateCap == [][C9_ShotStep]_vars /\ []C9_ShotSpans

\* The eleventh shot of a second has been rejected.
C9_Witness ==
    /\ resp.op = "validate" /\ resp.type = "shot_fired" /\ ~resp.valid
    /\ resp.error = "Too many shots fired per second"
    /\ TrailingCount(activeSessions[1], "shot_fired", now) = MAX_SHOTS_PER_SECOND

\* C7: in every reachable state the score of every session is at most
\* MAX_SCORE_PER_SESSION (10000).
C7_ScoreCapped ==
    \A id \in DOMAIN activeSessions :
        activeSessions[id].score <= MAX_SCORE_PER_SESSION

C8_ScoreStep ==
    \A id \in DOMAIN activeSessions \cap DOMAIN activeSessions' :
        LET s == activeSessions[id]
            s2 == activeSessions'[id]
        IN  IF /\ resp'.op = "validate" /\ resp'.sessionId = id
               /\ resp'.type = "enemy_killed" /\ resp'.valid
            THEN /\ s2.score = s.score + POINTS_PER_KILL
                 /\ s2.enemiesKilled = s.enemiesKilled + 1
            ELSE s2.score = s.score

\* C8: a call that accepts an enemy_killed adds exactly 10 to score and 1 to
\* enemiesKilled, and no other step (an accepted shot or end, any rejected
\* action, a sweep, the passing of time) changes the score of a session.
C8_ScoreOnlyByAcceptedKills == [][C8_ScoreStep]_vars

C10_KillStep ==
    \A id \in DOMAIN activeSessions :
        ( /\ PassesThrottle(id, "enemy_killed")
          /\ TrailingCount(activeSessions[id], "enemy_killed", now)
                >= MAX_KILLS_PER_SECOND )
        => /\ ~resp'.valid
           /\ resp'.error = "Too many kills per second"
           /\ activeSessions'[id] = activeSessions[id]

C10_KillSpans ==
    \A id \in DOMAIN activeSessions :
        AtMostPerSecond(TimesOf(activeSessions[id].actions, "enemy_killed"),
                        MAX_KILLS_PER_SECOND)

\* The score has grown by at most 50 in any second: it grows by 10 at a
\* time, and the sixth increment after any one comes at least 1000 ms later.
C10_ScoreRate ==
    \A id \in DOMAIN gains : AtMostPerSecond(gains[id], MAX_KILLS_PER_SECOND)

\* C10: an enemy_killed is rejected when 5 or more were accepted in the
\* trailing second; no span of one second holds more than 5 accepted kills;
\* and the score grows by at most 50 per second.
C10_KillRateCap ==
    [][C10_KillStep]_vars /\ []C10_KillSpans /\ []C10_ScoreRate

-----------------------------------------------------------------------------
(* Claims about the life of a game session *)

\* The step is a call of validateGameAction on this session.
ValidateCalled(id) ==
    /\ resp'.op = "validate" /\ resp'.sessionId = id
    /\ now' = now /\ commitVars' = commitVars

\* The step is a call of endGameSession on this session.
EndCalled(id) ==
    /\ resp'.op = "end" /\ resp'.sessionId = id
    /\ now' = now /\ commitVars' = commitVars

C11_EndStep ==
    \A id \in DOMAIN activeSessions :
        ( /\ EndCalled(id)
          /\ resp'.playerAddress = activeSessions[id].playerAddress )
        => IF activeSessions[id].isActive
           THEN /\ resp'.valid
                /\ resp'.score = activeSessions[id].score
                /\ ~activeSessions'[id].isActive
           ELSE /\ ~resp'.valid
                /\ activeSessions'[id] = activeSessions[id]

\* C11: of two end calls by the owner on one session, the one that finds it
\* Active ends it and returns finalScore; the one that finds it Ended returns
\* a failure and appends nothing to the session.
C11_SecondEndFails == [][C11_EndStep]_vars

C12_Step ==
    \A id \in DOMAIN activeSessions \cap DOMAIN activeSessions' :
        ~activeSessions[id].isActive => ~activeSessions'[id].isActive

\* C12: a session whose isActive is false keeps it false in every later state
\* for as long as it is in the store.
C12_NeverReactivated == [][C12_Step]_vars

\* An action was refused on a session that had been ended.
C12_Witness ==
    /\ resp.op = "validate" /\ resp.error = "Game session is not active"
    /\ resp.sessionId \in DOMAIN activeSessions
    /\ ~activeSessions[resp.sessionId].isActive
    /\ Len(activeSessions[resp.sessionId].actions) >= 2

C13_StrictlyIncreasing ==
    \A id \in DOMAIN activeSessions :
        \A i \in 1..Len(activeSessions[id].actions) - 1 :
            activeSessions[id].actions[i].timestamp
                < activeSessions[id].actions[i + 1].timestamp

C13_AppendOnly ==
    \A id \in DOMAIN activeSessions \cap DOMAIN activeSessions' :
        /\ Len(activeSessions'[id].actions) >= Len(activeSessions[id].actions)
        /\ SubSeq(activeSessions'[id].actions, 1, Len(activeSessions[id].actions))
                = activeSessions[id].actions

\* C13: the timestamps of a session's actions are strictly increasing, and
\* every step leaves the entries already in the sequence as they are.
C13_OrderedAppendOnly == []C13_StrictlyIncreasing /\ [][C13_AppendOnly]_vars

C14_Step ==
    \A id \in DOMAIN activeSessions :
        ( /\ ValidateCalled(id) \/ EndCalled(id)
          /\ resp'.playerAddress # activeSessions[id].playerAddress )
        => /\ ~resp'.valid
           /\ resp'.error = "Session belongs to different player"
           /\ activeSessions' = activeSessions

\* C14: a validateGameAction or endGameSession call whose playerAddress is
\* not the session's owner fails with 'Session belongs to different player'
\* and leaves the session as it was.
C14_OnlyOwnerWrites == [][C14_Step]_vars

\* A call by another address was refused on a session that is in the store.
C14_Witness ==
    /\ resp.op \in {"validate", "end"}
    /\ resp.error = "Session belongs to different player"
    /\ resp.sessionId \in DOMAIN activeSessions
    /\ resp.playerAddress # activeSessions[resp.sessionId].playerAddress

C15_Step ==
    \A id \in DOMAIN activeSessions :
        ValidateCalled(id) =>
            LET s == activeSessions[id]
                s2 == activeSessions'[id]
            IN  /\ ( /\ resp'.playerAddress = s.playerAddress
                     /\ s.isActive
                     /\ now - s.startTime <= MAX_SESSION_DURATION
                     /\ now - s.lastAction < MIN_TIME_BETWEEN_ACTIONS )
                    => /\ ~resp'.valid
                       /\ resp'.error = "Actions too frequent"
                       /\ s2 = s
                /\ resp'.valid => /\ now - s.lastAction >= MIN_TIME_BETWEEN_ACTIONS
                                  /\ s2.lastAction = now
                /\ ~resp'.valid => s2.lastAction = s.lastAction

\* Every entry that validateGameAction appended while the session was Active
\* comes at least 50 ms after the entry before it.
C15_Spacing ==
    \A id \in DOMAIN activeSessions :
        \A i \in 1..Len(activeSessions[id].actions) - 1 :
            activeSessions[id].actions[i + 1].type # "game_ended"
                => activeSessions[id].actions[i + 1].timestamp
                        - activeSessions[id].actions[i].timestamp
                            >= MIN_TIME_BETWEEN_ACTIONS

\* C15: validateGameAction rejects with 'Actions too frequent' an action less
\* than 50 ms after lastAction; accepted actions are at least 50 ms apart and
\* the first is at least 50 ms after creation; a rejected action leaves
\* lastAction as it was.
C15_Throttle == [][C15_Step]_vars /\ []C15_Spacing

\* An action 25 ms after the last accepted one was refused.
C15_Witness ==
    /\ resp.op = "validate" /\ resp.error = "Actions too frequent"
    /\ resp.sessionId \in DOMAIN activeSessions
    /\ Len(activeSessions[resp.sessionId].actions) >= 2
    /\ now - activeSessions[resp.sessionId].lastAction = 25

C16_Step ==
    \A id \in DOMAIN activeSessions :
        ValidateCalled(id) =>
            LET s == activeSessions[id]
                s2 == activeSessions'[id]
            IN  /\ ( /\ resp'.playerAddress = s.playerAddress
                     /\ s.isActive
                     /\ now - s.startTime > MAX_SESSION_DURATION )
                    => /\ ~resp'.valid
                       /\ resp'.error = "Game session expired"
                       /\ s2 = [s EXCEPT !.isActive = FALSE]
                /\ resp'.valid => now - s.startTime <= MAX_SESSION_DURATION

\* C16: a validateGameAction call on an Active session older than 30 minutes
\* is rejected with 'Game session expired' and ends the session, counters and
\* actions unchanged; no action is accepted on a session older than that.
C16_ExpiredRejected == [][C16_Step]_vars

\* An action on a session older than 30 minutes was refused and ended it.
C16_Witness ==
    /\ resp.op = "validate" /\ resp.error = "Game session expired"
    /\ resp.sessionId \in DOMAIN activeSessions
    /\ ~activeSessions[resp.sessionId].isActive
    /\ now - activeSessions[resp.sessionId].startTime > MAX_SESSION_DURATION

-----------------------------------------------------------------------------
(* Claims about the accounting of a session *)

\* The entries of one type in the log of a session.
Accepted(session, type) == CountType(session.actions, type)

C18_Counters ==
    \A id \in DOMAIN activeSessions :
        LET session == activeSessions[id] IN
        /\ session.score = POINTS_PER_KILL * Accepted(session, "enemy_killed")
        /\ session.enemiesKilled = Accepted(session, "enemy_killed")
        /\ session.shotsFired = Accepted(session, "shot_fired")

C18_Step ==
    \A id \in DOMAIN activeSessions :
        LET after == activeSessions'[id]
            k == Accepted(after, "enemy_killed")
            sh == Accepted(after, "shot_fired")
        IN  /\ (ValidateCalled(id) /\ resp'.valid) => resp'.score = 10 * k
            /\ (EndCalled(id) /\ resp'.valid) => resp'.score = 10 * k
            /\ (resp'.op = "stats" /\ resp'.sessionId = id /\ now' = now) =>
                /\ resp'.stats.score = 10 * k
                /\ resp'.stats.shotsFired = sh
                /\ resp'.stats.enemiesKilled = k
                /\ sh = 0 => resp'.stats.accuracy = 0
                /\ sh > 0 =>
                    /\ 2 * (resp'.stats.accuracy * sh - 10000 * k) <= sh
                    /\ 2 * (10000 * k - resp'.stats.accuracy * sh) < sh
                /\ (sh = 3 /\ k = 1) => resp'.stats.accuracy = 3333

\* C18: with s shot_fired and k enemy_killed accepted, an accepted action and
\* the end report the score 10*k, and the statistics report score 10*k,
\* shotsFired s, enemiesKilled k and accuracy 100*k/s rounded to two decimals
\* (0 when s = 0): 33.33 for s = 3, k = 1.
C18_Accounting == []C18_Counters /\ [][C18_Step]_vars

\* The statistics of an ended session with 3 shots and 1 kill.
C18_Witness ==
    /\ resp.op = "stats" /\ resp.valid
    /\ resp.stats.shotsFired = 3 /\ resp.stats.enemiesKilled = 1
    /\ resp.stats.score = 10 /\ resp.stats.accuracy = 3333
    /\ ~activeSessions[1].isActive

-----------------------------------------------------------------------------
(* Claims about the order of the checks of the game endpoints *)

\* The step leaves the game sessions and the commit state as they were.
StoresUntouched ==
    /\ activeSessions' = activeSessions /\ created' = created
    /\ dedupRecords' = dedupRecords /\ writes' = writes

C17_Step ==
    rresp'.seq # rresp.seq =>
        /\ ~validateOrigin(rresp'.h) =>
                /\ rresp'.status = 403
                /\ rateEntries' = rateEntries
                /\ ~rresp'.validated
                /\ StoresUntouched
        /\ validateOrigin(rresp'.h) =>
                /\ RateCount(ClientIp)' >= 1
                /\ rateEntries' # rateEntries
        /\ rresp'.status = 429 =>
                /\ validateOrigin(rresp'.h)
                /\ ~rresp'.validated
                /\ StoresUntouched
        /\ rresp'.status = 401 =>
                /\ rresp'.validated
                /\ StoresUntouched
        /\ rresp'.validated => validateOrigin(rresp'.h) /\ rresp'.status # 429
        /\ ~StoresUntouched => rresp'.validated /\ rresp'.status \notin {401, 429}

\* C17: start, action, end and commit check the origin, then the rate limit,
\* then the token, then touch the store: a request from a foreign origin is
\* not counted by the rate limiter, a rate-limited request is not
\* token-validated, and a request whose token fails changes no session and
\* commits nothing.
C17_CheckOrder == [][C17_Step]_vars

\* A start request from the site was turned away by the rate limiter, the
\* sixth of its minute, without its token being looked at.
C17_Witness ==
    /\ rresp.route = "start" /\ rresp.status = 429 /\ ~rresp.validated
    /\ RateCount(ClientIp) = START_MAX + 1
    /\ validateOrigin(rresp.h)

-----------------------------------------------------------------------------
(* SecureGameAuth: the client that walks a player through the protocol *)

\* expiresAt: Date.now() + 5 * 60 * 1000
CLIENT_SESSION_TTL == 300000

\* The game session ids a start request may be answered with.
MaxClientGames == 2

MaxClientNow == 300002

\* Half the local lifetime, and a millisecond more: the local expiry is reached
\* exactly and passed by one.
ClientDeltas == {CLIENT_SESSION_TTL \div 2, CLIENT_SESSION_TTL \div 2 + 1}

\* What the server may answer to a request of the client: success, a refusal
\* (success: false with the server's error), or a failed fetch that throws.
Replies == {"success", "refused", "throw"}

\* if (!this.session || Date.now() > this.session.expiresAt)
AuthExpiredClockIgnored(s, t) == s.isNull

AuthExpired(s, t) == s.isNull \/ t > s.expiresAt

\* if (!this.session || !this.session.gameSessionId)
NoGameSessionIgnored(s) == s.isNull

NoGameSession(s) == s.isNull \/ s.gameSessionId = NoGame

Returned(op, success, error, serverCall) ==
    [seq |-> 1 - authResult.seq, op |-> op, success |-> success, error |-> error,
     serverCall |-> serverCall, authenticated |-> FALSE, gameActive |-> FALSE]

\* authenticateWallet: getNonce, signMessage, getSessionToken, then the local
\* session is replaced.  The token is the one the exchange issues at this time.
AuthenticateWallet(playerAddress, nonceReply, tokenReply) ==
    /\ \/ /\ nonceReply = "refused"
          /\ authResult' = Returned("authenticateWallet", FALSE,
                                    "Failed to get authentication nonce", "nonce")
          /\ UNCHANGED <<authSession, progress>>
       \/ /\ nonceReply = "throw"
          /\ authResult' = Returned("authenticateWallet", FALSE,
                                    "Authentication failed", "nonce")
          /\ UNCHANGED <<authSession, progress>>
       \/ /\ nonceReply = "success"
          /\ tokenReply = "refused"
          /\ authResult' = Returned("authenticateWallet", FALSE,
                                    "Failed to authenticate signature", "token")
          /\ UNCHANGED <<authSession, progress>>
       \/ /\ nonceReply = "success"
          /\ tokenReply = "throw"
          /\ authResult' = Returned("authenticateWallet", FALSE,
                                    "Authentication failed", "token")
          /\ UNCHANGED <<authSession, progress>>
       \/ /\ nonceReply = "success"
          /\ tokenReply = "success"
          /\ authSession' =
                [isNull |-> FALSE, playerAddress |-> playerAddress,
                 sessionToken |-> generateSessionToken(playerAddress, Bucket(now)),
                 gameSessionId |-> NoGame, expiresAt |-> now + CLIENT_SESSION_TTL]
          /\ authResult' = Returned("authenticateWallet", TRUE, "", "token")
          /\ progress' = "authenticated"
    /\ UNCHANGED <<now, nonceVars, tokenCheck, gameVars, commitVars, routeVars, manager>>

\* startGame: refused locally without a fresh local session, otherwise the
\* start endpoint is asked and a granted id is remembered.
StartGame(reply, gameSessionId) ==
    /\ IF AuthExpired(authSession, now)
       THEN /\ authResult' = Returned("startGame", FALSE,
                    "Authentication expired. Please authenticate again.", "none")
            /\ UNCHANGED <<authSession, progress>>
       ELSE CASE reply = "success" ->
                    /\ authSession' = [authSession EXCEPT !.gameSessionId = gameSessionId]
                    /\ authResult' = Returned("startGame", TRUE, "", "start")
                    /\ progress' = IF progress = "authenticated" THEN "started" ELSE progress
              [] reply = "refused" ->
                    /\ authResult' = Returned("startGame", FALSE, "server", "start")
                    /\ UNCHANGED <<authSession, progress>>
              [] reply = "throw" ->
                    /\ authResult' = Returned("startGame", FALSE, "Failed to start game", "start")
                    /\ UNCHANGED <<authSession, progress>>
    /\ UNCHANGED <<now, nonceVars, tokenCheck, gameVars, commitVars, routeVars, manager>>

\* submitAction: refused locally without a game session id, otherwise whatever
\* the action endpoint answers is returned.
SubmitAction(reply) ==
    /\ IF NoGameSession(authSession)
       THEN authResult' = Returned("submitAction", FALSE, "No active game session", "none")
       ELSE CASE reply = "success" -> authResult' = Returned("submitAction", TRUE, "", "action")
              [] reply = "refused" ->
                    authResult' = Returned("submitAction", FALSE, "server", "action")
              [] reply = "throw" ->
                    authResult' = Returned("submitAction", FALSE,
                                           "Failed to submit action", "action")
    /\ UNCHANGED <<authSession, progress>>
    /\ UNCHANGED <<now, nonceVars, tokenCheck, gameVars, commitVars, routeVars, manager>>

\* endGame: refused locally without a game session id; a successful end
\* forgets the id.
EndGame(reply) ==
    /\ IF NoGameSession(authSession)
       THEN /\ authResult' = Returned("endGame", FALSE, "No active game session", "none")
            /\ UNCHANGED <<authSession, progress>>
       ELSE CASE reply = "success" ->
                    /\ authSession' = [authSession EXCEPT !.gameSessionId = NoGame]
                    /\ authResult' = Returned("endGame", TRUE, "", "end")
                    /\ progress' = IF progress = "started" THEN "ended" ELSE progress
              [] reply = "refused" ->
                    /\ authResult' = Returned("endGame", FALSE, "server", "end")
                    /\ UNCHANGED <<authSession, progress>>
              [] reply = "throw" ->
                    /\ authResult' = Returned("endGame", FALSE, "Failed to end game", "end")
                    /\ UNCHANGED <<authSession, progress>>
    /\ UNCHANGED <<now, nonceVars, tokenCheck, gameVars, commitVars, routeVars, manager>>

\* submitToBlockchain: every path returns a failure, and none of them sends a
\* request.
SubmitToBlockchain ==
    /\ authResult' =
          IF authSession.isNull
          THEN Returned("submitToBlockchain", FALSE, "No active session", "none")
          ELSE IF authSession.gameSessionId # NoGame
          THEN Returned("submitToBlockchain", FALSE,
                        "Game session still active. End the game first.", "none")
          ELSE Returned("submitToBlockchain", FALSE,
                        "Implementation pending - need game session tracking", "none")
    /\ UNCHANGED <<authSession, progress>>
    /\ UNCHANGED <<now, nonceVars, tokenCheck, gameVars, commitVars, routeVars, manager>>

GetSessionStatus ==
    /\ authResult' =
          IF authSession.isNull
          THEN Returned("getSessionStatus", TRUE, "", "none")
          ELSE [Returned("getSessionStatus", TRUE, "", "none") EXCEPT
                    !.authenticated = ~(now > authSession.expiresAt),
                    !.gameActive = authSession.gameSessionId # NoGame
                                   /\ ~(now > authSession.expiresAt)]
    /\ UNCHANGED <<authSession, progress>>
    /\ UNCHANGED <<now, nonceVars, tokenCheck, gameVars, commitVars, routeVars, manager>>

\* logout that also reaches into the server's stores.
LogoutEverywhere ==
    /\ authSession' = NullSession
    /\ progress' = "none"
    /\ activeSessions' = <<>>
    /\ gains' = <<>>
    /\ UNCHANGED <<now, nonceVars, tokenCheck, created, resp, authResult, commitVars, routeVars,
                   manager>>

\* logout: this.session = null
Logout ==
    /\ authSession' = NullSession
    /\ progress' = "none"
    /\ UNCHANGED authResult
    /\ UNCHANGED <<now, nonceVars, tokenCheck, gameVars, commitVars, routeVars, manager>>

TickClient(d, horizon) ==
    /\ now + d <= horizon
    /\ now' = now + d
    /\ UNCHANGED <<nonceVars, tokenCheck, gameVars, commitVars, routeVars, clientVars, manager>>

NextClient ==
    \/ \E a \in Addresses, n \in Replies, t \in Replies : AuthenticateWallet(a, n, t)
    \/ \E reply \in Replies, id \in 1..MaxClientGames : StartGame(reply, id)
    \/ \E reply \in Replies : SubmitAction(reply)
    \/ \E reply \in Replies : EndGame(reply)
    \/ SubmitToBlockchain
    \/ GetSessionStatus
    \/ Logout
    \/ \E d \in ClientDeltas : TickClient(d, MaxClientNow)

SpecClient == Init /\ [][NextClient]_vars

-----------------------------------------------------------------------------
(* Claims about the client's step guards *)

ClientCalled(op) == authResult'.seq # authResult.seq /\ authResult'.op = op

FailedLocally == ~authResult'.success /\ authResult'.serverCall = "none"

HoldsFreshSession == ~authSession.isNull /\ now <= authSession.expiresAt

HoldsGameSession == ~authSession.isNull /\ authSession.gameSessionId # NoGame

\* startGame refuses locally exactly when there is no local session or the
\* local expiry has passed.
C19_StartStep ==
    ClientCalled("startGame") => (FailedLocally <=> ~HoldsFreshSession)

\* submitAction and endGame refuse locally exactly when no game session id is held.
C19_GameStep ==
    ClientCalled("submitAction") \/ ClientCalled("endGame")
        => (FailedLocally <=> ~HoldsGameSession)

\* submitToBlockchain refuses locally without a local session and also while a
\* game session id is still held.
C19_CommitStep ==
    ClientCalled("submitToBlockchain")
        => /\ authSession.isNull => FailedLocally
           /\ HoldsGameSession
                => FailedLocally /\ authResult'.error =
                        "Game session still active. End the game first."

-----------------------------------------------------------------------------
(* Claims about the whole protocol *)

\* C20: once authenticateWallet, startGame, any number of submitAction calls
\* and endGame have succeeded in that order, submitToBlockchain sends the
\* score to the score-commit endpoint.
C20_Step ==
    ClientCalled("submitToBlockchain") /\ progress = "ended"
        => authResult'.serverCall = "commit"

C20_CompletesProtocol == [][C20_Step]_vars
-----------------------------------------------------------------------------
(* The client next to the server's stores *)

MaxLogoutNow == 1800001

MaxLogoutActions == 2

\* The client of player 0xA, the server's nonce and game-session stores, and
\* the clock: the client's replies are not tied to the stores, so every
\* interleaving of a logout with the server's own steps is covered.
NextLogout ==
    \/ AuthenticateWallet("0xA", "success", "success")
    \/ \E reply \in {"success", "refused"} : StartGame(reply, 1)
    \/ SubmitAction("success")
    \/ EndGame("success")
    \/ SubmitToBlockchain
    \/ GetSessionStatus
    \/ Logout
    \/ activeNonces = {} /\ GetNonce(GoodHeaders, "0xA")
    \/ CreateGameSession("0xA")
    \/ EndGameSession(1, "0xA", MaxLogoutActions)
    \/ ValidateGameAction(1, "0xA", "enemy_killed", MaxLogoutActions)
    \/ SweepSessions
    \/ TickGame(MAX_SESSION_DURATION + 1, MaxLogoutNow)

SpecLogout == Init /\ [][NextLogout]_vars

-----------------------------------------------------------------------------
(* Claims about logout *)

\* The step that drops the local session leaves both server stores as they were.
C21_LogoutStep ==
    ~authSession.isNull /\ authSession'.isNull
        => /\ nonceData' = nonceData
           /\ activeNonces' = activeNonces
           /\ activeSessions' = activeSessions

\* Without a local session every step is turned away without a request and
\* the status reports neither authenticated nor gameActive.
C21_LoggedOutStep ==
    authSession.isNull
        => /\ ClientCalled("startGame") \/ ClientCalled("submitAction")
                \/ ClientCalled("endGame") \/ ClientCalled("submitToBlockchain")
              => FailedLocally
           /\ ClientCalled("getSessionStatus")
              => ~authResult'.authenticated /\ ~authResult'.gameActive

\* An Active server session stops being Active only by an end call, by a
\* validate call that finds it expired, or by the sweep once it has been idle
\* for more than MAX_SESSION_DURATION.
C21_ActiveUntilEndedOrExpired ==
    \A id \in DOMAIN activeSessions :
        /\ activeSessions[id].isActive
        /\ id \notin DOMAIN activeSessions' \/ ~activeSessions'[id].isActive
        => \/ resp'.op = "end" /\ resp'.sessionId = id /\ resp'.valid
           \/ /\ resp'.op = "validate" /\ resp'.sessionId = id
              /\ now - activeSessions[id].startTime > MAX_SESSION_DURATION
           \/ /\ resp'.op = "sweep"
              /\ now - activeSessions[id].lastAction > MAX_SESSION_DURATION

\* C21: logout clears only local state: afterwards no session is held, so the
\* status is unauthenticated and every step fails without a server call, while
\* the nonce store and the game-session store are as before and an Active
\* server session stays Active until it is ended or expires.
C21_LogoutLocalOnly ==
    [][C21_LogoutStep /\ C21_LoggedOutStep /\ C21_ActiveUntilEndedOrExpired]_vars

\* The client started a game and logged out; the server still holds the
\* session as Active and the nonce it issued.
C21_Witness ==
    /\ authSession.isNull
    /\ authResult.op = "getSessionStatus"
    /\ ~authResult.authenticated
    /\ progress = "none"
    /\ activeNonces # {}
    /\ 1 \in DOMAIN activeSessions
    /\ activeSessions[1].isActive
-----------------------------------------------------------------------------
(* Claims about refused consume calls *)

\* C22: a consume call that returns false leaves the nonce store as it was:
\* no entry is added, removed or marked used.
C22_Step ==
    \A r \in XReqs :
        xreq'[r] # xreq[r] /\ xreq'[r].consumed = "false"
            => nonceData' = nonceData /\ activeNonces' = activeNonces

C22_FalseLeavesStoreUnchanged == [][C22_Step]_vars
-----------------------------------------------------------------------------
(* Claims about re-driving the score commit *)

\* A commit request arrives for a fingerprint whose record is Processing
\* though no request is writing it any more: the request that marked it has
\* failed.  The new request is not turned away as a duplicate.
C23_RedriveStep ==
    \A c \in CReqs :
        ( /\ creq[c].pc = "idle" /\ creq'[c].pc # "idle"
          /\ creq'[c].requestId \in DOMAIN dedupRecords
          /\ dedupRecords[creq'[c].requestId].state = "Processing"
          /\ \A c2 \in CReqs : ~(creq[c2].pc = "writing"
                                  /\ creq[c2].requestId = creq'[c].requestId) )
        => creq'[c].status # 409

\* C23: the score commit can be re-driven safely: after a request that marked
\* its fingerprint Processing has failed, a later request for the same ended
\* session is not rejected as a duplicate; and re-driving after a successful
\* write causes no second write while the record is live.
C23_SafeRedrive == [][C23_RedriveStep]_vars /\ []C5_OncePerTTL
-----------------------------------------------------------------------------
(* Claims about rejected actions *)

\* C24: a validateGameAction call that returns valid = false for a reason
\* other than detected expiry leaves the session as it was: score,
\* enemiesKilled, shotsFired, actions, lastAction and isActive are unchanged;
\* a kill rejected by the score cap is not counted.
C24_Step ==
    resp'.op = "validate" /\ ~resp'.valid /\ resp'.error # "Game session expired"
        => activeSessions' = activeSessions

C24_RejectionSideEffectFree == [][C24_Step]_vars
-----------------------------------------------------------------------------
(* Claims about ended sessions *)

\* Every validateGameAction call on an Ended session is rejected, the owner's
\* with "not active", and the session stays Ended with its counters as they
\* were for as long as the store holds it.
C25_FrozenStep ==
    \A id \in DOMAIN activeSessions :
        ~activeSessions[id].isActive
            => /\ ValidateCalled(id)
                  => /\ ~resp'.valid
                     /\ resp'.playerAddress = activeSessions[id].playerAddress
                            => resp'.error = "Game session is not active"
               /\ id \in DOMAIN activeSessions'
                  => /\ ~activeSessions'[id].isActive
                     /\ activeSessions'[id].score = activeSessions[id].score
                     /\ activeSessions'[id].enemiesKilled = activeSessions[id].enemiesKilled
                     /\ activeSessions'[id].shotsFired = activeSessions[id].shotsFired

\* The finalScore an end call returns is the score the session is left with,
\* and the score a commit forwards is the score the Ended session holds.
C25_ScoreStep ==
    /\ \A id \in DOMAIN activeSessions :
            EndCalled(id) /\ resp'.valid => resp'.score = activeSessions'[id].score
    /\ WriteInvoked =>
            LET w == writes'[Len(writes')]
                id == w.requestId.gameSessionId
            IN  /\ id \in DOMAIN activeSessions
                /\ ~activeSessions[id].isActive
                /\ w.scoreAmount = activeSessions[id].score

\* C25: an Ended session is frozen: every validateGameAction call on it is
\* rejected and its score, enemiesKilled and shotsFired never change again, so
\* the score a later commit reads equals the finalScore of the end call.
C25_EndedFrozen == [][C25_FrozenStep /\ C25_ScoreStep]_vars

\* A kill was accepted, the session was ended, and the commit forwarded the
\* score it was ended with.
C25_Witness ==
    /\ Len(writes) = 1
    /\ writes[1].scoreAmount = POINTS_PER_KILL
    /\ 1 \in DOMAIN activeSessions
    /\ ~activeSessions[1].isActive
    /\ activeSessions[1].score = POINTS_PER_KILL
    /\ resp.op = "validate" /\ resp.sessionId = 1
    /\ resp.error = "Game session is not active"
-----------------------------------------------------------------------------
(* Claims about the expiry the token exchange reports *)

\* C26: a token issued for an address in bucket B, reported to expire at
\* B + 300000, is accepted for that address under the default window at every
\* time from its bucket on that is before the reported expiry, and rejected at
\* every time from the reported expiry on.
C26_ExpiresAtAgrees ==
    LET c == tokenCheck IN
    ( /\ c.window = DEFAULT_WINDOW
      /\ c.token = generateSessionToken(c.address, c.token.timestamp)
      /\ c.token.timestamp % TOKEN_BUCKET = 0
      /\ c.token.timestamp <= c.at )
        => (c.result <=> c.at < TokenExpiresAt(c.token.timestamp))

\* A token was rejected at the very millisecond of its reported expiry.
C26_Witness ==
    /\ tokenCheck.window = DEFAULT_WINDOW
    /\ tokenCheck.token = generateSessionToken(tokenCheck.address, TOKEN_BUCKET)
    /\ tokenCheck.at = TokenExpiresAt(TOKEN_BUCKET)
    /\ ~tokenCheck.result
-----------------------------------------------------------------------------
(* One client at several endpoints *)

\* maxRequests as each endpoint passes it to rateLimit.
MaxRequestsOf(route) ==
    CASE route = "start" -> START_MAX
      [] route = "action" -> ACTION_MAX
      [] route = "end" -> END_MAX
      [] OTHER -> COMMIT_MAX

\* What a limiter that served this endpoint alone would do with the request:
\* its entries are kept under the endpoint's name.
OwnCheck(route, h) ==
    ownEntries' = IF validateOrigin(h)
                  THEN rateLimit(ownEntries, route, MaxRequestsOf(route), now).entries
                  ELSE ownEntries

\* The player's body, with the token of the current bucket.
OwnBody ==
    [playerAddress |-> "0xA", gameSessionId |-> 1,
     sessionToken |-> generateSessionToken("0xA", Bucket(now)), score |-> 0]

RateHeaders == {GoodHeaders, [GoodHeaders EXCEPT !.origin = "evil"]}

NextRates ==
    \/ \E h \in RateHeaders : StartRoute(h, OwnBody) /\ OwnCheck("start", h)
    \/ \E h \in RateHeaders :
            ActionRoute(h, OwnBody, "enemy_killed") /\ OwnCheck("action", h)
    \/ \E h \in RateHeaders : EndRoute(h, OwnBody) /\ OwnCheck("end", h)
    \/ \E h \in RateHeaders : CommitRoute(1, h, OwnBody) /\ OwnCheck("commit", h)
    \/ CommitFinish(1, "hash")
    \/ SweepRates
    \/ TickRoutes(RATE_WINDOW, MaxRouteNow)

SpecRates == Init /\ [][NextRates]_vars

\* C27: the rate limits of different endpoints are independent for one
\* client: an endpoint answers 429 only when its own count of requests within
\* its own live window exceeds its own maxRequests.
C27_Step ==
    rresp'.seq # rresp.seq /\ rresp'.status = 429
        => ~rateLimit(ownEntries, rresp'.route, MaxRequestsOf(rresp'.route), now).allowed

C27_IndependentLimits == [][C27_Step]_vars
-----------------------------------------------------------------------------
(* Reclaiming the sessions: two sessions, their owners, the sweep, the clock *)

MaxReclaimActions == 3

\* Short steps of the clock are taken up to this time only.
MaxReclaimBurst == 100

\* Two players have each created a session at time 0.
InitReclaim ==
    /\ now = 0
    /\ nonceData = <<>>
    /\ activeNonces = {}
    /\ xreq = [r \in XReqs |-> IdleReq]
    /\ okCount = <<>>
    /\ tokenCheck = NoCheck
    /\ activeSessions = (1 :> NewSession("0xA", 0)) @@ (2 :> NewSession("0xB", 0))
    /\ created = 2
    /\ gains = (1 :> << >>) @@ (2 :> << >>)
    /\ resp = NoResp
    /\ dedupRecords = <<>>
    /\ writes = <<>>
    /\ creq = [c \in CReqs |-> IdleCommit]
    /\ privateKey = TRUE
    /\ rateEntries = <<>>
    /\ rresp = NoRouteResp
    /\ ownEntries = <<>>
    /\ ClientInit

\* Time advances.  Once every session in the store has been idle for more
\* than MAX_SESSION_DURATION, more time changes nothing for the sweep, and the
\* clock of the model rests.
TickReclaim(d) ==
    /\ \E id \in DOMAIN activeSessions :
            now - activeSessions[id].lastAction <= MAX_SESSION_DURATION
    /\ d < MAX_SESSION_DURATION => now + d <= MaxReclaimBurst
    /\ now' = now + d
    /\ resp' = NoResp
    /\ UNCHANGED <<nonceVars, tokenCheck, activeSessions, created, gains, commitVars,
                   routeVars, clientVars, manager>>

\* 50 ms lets an owner act again; 30 minutes is the longest idle time the
\* sweep tolerates.
ReclaimDeltas == {MIN_TIME_BETWEEN_ACTIONS, MAX_SESSION_DURATION}

NextReclaim ==
    \/ \E id \in DOMAIN activeSessions, type \in {"shot_fired", "game_ended"} :
            ValidateGameAction(id, activeSessions[id].playerAddress, type,
                               MaxReclaimActions)
    \/ \E id \in DOMAIN activeSessions :
            EndGameSession(id, activeSessions[id].playerAddress, MaxReclaimActions)
    \/ SweepSessions
    \/ \E d \in ReclaimDeltas : TickReclaim(d)

\* The interval timer keeps firing and time keeps advancing.
SpecReclaim ==
    /\ InitReclaim
    /\ [][NextReclaim]_vars
    /\ WF_vars(SweepSessions)
    /\ WF_vars(TickReclaim(MAX_SESSION_DURATION))

\* The sweep removes exactly the sessions idle for more than
\* MAX_SESSION_DURATION and leaves every other session as it is.
C28_SweepStep ==
    resp'.op = "sweep" =>
        \A id \in DOMAIN activeSessions :
            IF now - activeSessions[id].lastAction > MAX_SESSION_DURATION
            THEN id \notin DOMAIN activeSessions'
            ELSE /\ id \in DOMAIN activeSessions'
                 /\ activeSessions'[id] = activeSessions[id]

\* No other step takes a session out of the store.
C28_RemovedBySweepOnly ==
    DOMAIN activeSessions' # DOMAIN activeSessions => resp'.op = "sweep"

\* C28: as time advances and the sweep keeps firing, every session created,
\* whether ended, expired or abandoned while Active, is eventually removed
\* from the store; the sweep removes a session only when
\* now - lastAction > 30 minutes and leaves every other session untouched.
C28_Reclaimed ==
    /\ <>[](activeSessions = <<>>)
    /\ [][C28_SweepStep /\ C28_RemovedBySweepOnly]_vars

\* The idle session is gone; the one whose owner went on playing is kept,
\* still Active.
C28_Witness ==
    /\ resp.op = "sweep"
    /\ DOMAIN activeSessions = {1}
    /\ activeSessions[1].isActive
    /\ Len(activeSessions[1].actions) > 1
-----------------------------------------------------------------------------
(* ScoreSubmissionManager: batched score submission behind a timer *)

MaxTimers == 4

MaxPendingScore == 20

MaxPendingTransactions == 2

\* clearTimeout that cancels nothing.
NotCleared(armed, handle) == armed

\* clearTimeout(handle): a timer that has fired or was cleared is not there.
clearTimeout(armed, handle) == armed \ {handle}

ManagerCall(op, by, submitted, cancelled) ==
    [seq |-> 1 - manager.last.seq, op |-> op, by |-> by, submitted |-> submitted,
     cancelled |-> cancelled]

\* scheduleSubmission: clear the timer held, set a new one.
scheduleSubmission(m) ==
    LET cleared == IF m.submitTimeout # NoTimer
                   THEN clearTimeout(m.armed, m.submitTimeout) ELSE m.armed
        handle == m.issued + 1
    IN  [m EXCEPT !.armed = cleared \cup {handle}, !.submitTimeout = handle,
                  !.issued = handle]

\* submitPlayerScore(playerAddress, scoreAmount, transactionAmount) is called
\* with these amounts.
submitPlayerScore(m, scoreAmount, transactionAmount) ==
    [m EXCEPT !.forwardedScore = @ + scoreAmount,
              !.forwardedTransactions = @ + transactionAmount]

\* submitImmediately that leaves the pending amounts in place.
submitKeepsPending(m) ==
    LET score == m.pendingScore
        transactions == m.pendingTransactions
        taken == [m EXCEPT !.armed = IF m.submitTimeout # NoTimer
                                     THEN clearTimeout(m.armed, m.submitTimeout)
                                     ELSE m.armed,
                           !.submitTimeout = NoTimer]
    IN  IF score = 0 /\ transactions = 0
        THEN taken
        ELSE submitPlayerScore(taken, score, transactions)

\* submitImmediately: clear the timer, take the pending amounts and reset
\* them, call the submit endpoint unless both are 0.
submitImmediately(m) ==
    LET score == m.pendingScore
        transactions == m.pendingTransactions
        taken == [m EXCEPT !.armed = IF m.submitTimeout # NoTimer
                                     THEN clearTimeout(m.armed, m.submitTimeout)
                                     ELSE m.armed,
                           !.submitTimeout = NoTimer,
                           !.pendingScore = 0, !.pendingTransactions = 0]
    IN  IF score = 0 /\ transactions = 0
        THEN taken
        ELSE submitPlayerScore(taken, score, transactions)

NothingPending(m) == m.pendingScore = 0 /\ m.pendingTransactions = 0

AddScore(points) ==
    /\ manager.issued < MaxTimers
    /\ manager.pendingScore + points <= MaxPendingScore
    /\ manager' = [scheduleSubmission([manager EXCEPT !.pendingScore = @ + points])
                        EXCEPT !.quiet = FALSE,
                               !.addedScore = @ + points,
                               !.last = ManagerCall("addScore", "application", FALSE,
                                                    manager.armed # {})]
    /\ UNCHANGED <<now, nonceVars, tokenCheck, gameVars, commitVars, routeVars, clientVars>>

AddTransaction(count) ==
    /\ manager.issued < MaxTimers
    /\ manager.pendingTransactions + count <= MaxPendingTransactions
    /\ manager' = [scheduleSubmission([manager EXCEPT !.pendingTransactions = @ + count])
                        EXCEPT !.quiet = FALSE,
                               !.addedTransactions = @ + count,
                               !.last = ManagerCall("addTransaction", "application", FALSE,
                                                    manager.armed # {})]
    /\ UNCHANGED <<now, nonceVars, tokenCheck, gameVars, commitVars, routeVars, clientVars>>

SubmitImmediately ==
    /\ manager' = [submitImmediately(manager)
                        EXCEPT !.quiet = TRUE,
                               !.last = ManagerCall("submitImmediately", "application",
                                                    ~NothingPending(manager),
                                                    manager.armed # {})]
    /\ UNCHANGED <<now, nonceVars, tokenCheck, gameVars, commitVars, routeVars, clientVars>>

\* The callback of setTimeout, run when an armed timer fires.
TimerFires(handle) ==
    /\ handle \in manager.armed
    /\ LET fired == [manager EXCEPT !.armed = @ \ {handle}] IN
       manager' =
          IF fired.pendingScore > 0 \/ fired.pendingTransactions > 0
          THEN [submitImmediately(fired)
                    EXCEPT !.last = ManagerCall("submitImmediately", "timer", TRUE, FALSE)]
          ELSE [fired EXCEPT !.last = ManagerCall("timeout", "timer", FALSE, FALSE)]
    /\ UNCHANGED <<now, nonceVars, tokenCheck, gameVars, commitVars, routeVars, clientVars>>

Destroy ==
    /\ manager' = [manager EXCEPT
                        !.armed = IF manager.submitTimeout # NoTimer
                                  THEN clearTimeout(manager.armed, manager.submitTimeout)
                                  ELSE manager.armed,
                        !.submitTimeout = NoTimer,
                        !.quiet = TRUE,
                        !.last = ManagerCall("destroy", "application", FALSE,
                                             manager.armed # {})]
    /\ UNCHANGED <<now, nonceVars, tokenCheck, gameVars, commitVars, routeVars, clientVars>>

NextManager ==
    \/ \E points \in {0, POINTS_PER_KILL} : AddScore(points)
    \/ AddTransaction(TRANSACTION_AMOUNT)
    \/ SubmitImmediately
    \/ \E handle \in manager.armed : TimerFires(handle)
    \/ Destroy

SpecManager == Init /\ [][NextManager]_vars

-----------------------------------------------------------------------------
(* Claims about the submission timer *)

\* At most one timer is pending, and it is the one the manager holds.
C29_OneTimer ==
    /\ Cardinality(manager.armed) <= 1
    /\ manager.armed \subseteq {manager.submitTimeout}

\* After a flush or destroy, and until something is added, no timer is pending.
C29_QuietNoTimer == manager.quiet => manager.armed = {}

C29_Step ==
    LET call == manager'.last IN
    call.seq # manager.last.seq =>
        \* submitImmediately and destroy cancel the scheduled timer
        /\ call.by = "application" /\ call.op \in {"submitImmediately", "destroy"}
            => manager'.armed = {}
        \* no timer-driven submission after a flush or destroy
        /\ call.by = "timer" => ~manager.quiet
        \* a flush with nothing pending does not call the submit endpoint
        /\ call.op = "submitImmediately" /\ NothingPending(manager) => ~call.submitted

\* C29: submitImmediately and destroy cancel the scheduled timer, at most one
\* timer is pending at any time, after a flush or destroy no timer-driven
\* submission occurs until addScore or addTransaction is called again, and a
\* flush with nothing pending makes no call to the submit endpoint.
C29_CancelOnFlush == [][C29_Step]_vars /\ [](C29_OneTimer /\ C29_QuietNoTimer)

\* A flush submitted the pending amounts and cancelled the timer that was
\* armed for them.
C29_Witness ==
    /\ manager.last.op = "submitImmediately"
    /\ manager.last.by = "application"
    /\ manager.last.submitted
    /\ manager.last.cancelled
    /\ manager.armed = {}
    /\ manager.issued > 1
-----------------------------------------------------------------------------
(* A long session, its end and its commit *)

\* The owner plays on from 998 kills, ends the session and commits it.
NextCapCommit ==
    \/ \E type \in {"shot_fired", "enemy_killed"} :
            /\ activeSessions[1].score < MAX_SCORE_PER_SESSION + MaxOverrun
            /\ ValidateGameAction(1, "0xA", type, KillsBefore + MaxCapActions)
    \/ EndGameSession(1, "0xA", KillsBefore + MaxCapActions)
    \/ CommitBegin(1, GoodHeaders, FALSE, OwnBody) /\ UNCHANGED routeVars
    \/ CommitFinish(1, "hash")
    \/ \E d \in CapDeltas : TickGame(d, KillStep * KillsBefore + MaxCapSpan)

SpecCapCommit == InitCap /\ [][NextCapCommit]_vars

\* C30: the scoreAmount forwarded to the external write never exceeds
\* MAX_SCORE_PER_SESSION, for every sequence create, validateGameAction*, end,
\* commit.
C30_ForwardedScoreCapped ==
    \A i \in 1..Len(writes) : writes[i].scoreAmount <= MAX_SCORE_PER_SESSION
-----------------------------------------------------------------------------
(* Claims about the action log *)

\* C31: in every state of a session, shotsFired is the number of shot_fired
\* entries of actions, enemiesKilled the number of enemy_killed entries, and
\* score = 10 * enemiesKilled.
C31_CountersMatchLog ==
    \A id \in DOMAIN activeSessions :
        LET session == activeSessions[id] IN
        /\ session.shotsFired = CountType(session.actions, "shot_fired")
        /\ session.enemiesKilled = CountType(session.actions, "enemy_killed")
        /\ session.score = POINTS_PER_KILL * session.enemiesKilled

\* C32: in every state the actions of a session start with the one
\* game_started entry, hold at most one game_ended entry, and that entry, if
\* there, is the last one and the session is Ended.
C32_WellFormedLog ==
    \A id \in DOMAIN activeSessions :
        LET session == activeSessions[id]
            actions == session.actions
        IN
        /\ Len(actions) >= 1
        /\ actions[1].type = "game_started"
        /\ \A i \in 2..Len(actions) : actions[i].type # "game_started"
        /\ \A i \in 1..Len(actions) :
                actions[i].type = "game_ended" => i = Len(actions) /\ ~session.isActive
-----------------------------------------------------------------------------
(* Claims about the two expiries of a session token *)

\* C33: whenever the client's local session has not expired (now <= local
\* expiresAt), validateSessionToken still accepts the held token for the
\* held address.
C33_ExpiryAgrees ==
    HoldsFreshSession
        => validateSessionToken(authSession.sessionToken, authSession.playerAddress,
                                DEFAULT_WINDOW, now)
-----------------------------------------------------------------------------
(* Nonces requested for one address, exchanges for any *)

\* Every nonce is requested by a get-nonce call that names 0xA; a token
\* exchange may name either address and present any signature.
NextBinding ==
    \/ GetNonce(GoodHeaders, "0xA")
    \/ \E r \in XReqs, q \in ExchangeRequests : ExchangeBegin(r, q.h, q.body)
    \/ \E r \in XReqs : ExchangeFinish(r)
    \/ \E d \in NonceDeltas : TickNonce(d)

SpecBinding == Init /\ [][NextBinding]_vars

\* C34: a nonce issued by a nonce request that names address A is consumed
\* only by a token exchange for A: an exchange for another address B that
\* presents it fails, even with B's signature over the message of (N, B).
C34_BoundToAddress ==
    \A r \in XReqs : xreq[r].consumed = "true" => xreq[r].address = "0xA"
-----------------------------------------------------------------------------
(* Claims about the amounts the submission manager forwards *)

\* C35: after any interleaving of addScore, addTransaction, timer firings,
\* submitImmediately and destroy, the points added equal the scoreAmount
\* values passed to submitPlayerScore plus the current pendingScore, and
\* likewise for transactions: nothing added is forwarded twice or dropped.
C35_Conservation ==
    /\ manager.addedScore = manager.forwardedScore + manager.pendingScore
    /\ manager.addedTransactions
            = manager.forwardedTransactions + manager.pendingTransactions

\* A timer forwarded points and a transaction, more points were added and
\* destroy left them pending.
C35_Witness ==
    /\ manager.last.op = "destroy"
    /\ manager.forwardedScore > 0
    /\ manager.forwardedTransactions > 0
    /\ manager.pendingScore > 0
    /\ manager.pendingTransactions = 0
====
